---- MODULE Spec2Model ----
(***************************************************************************)
(* Batch submission driver of wdl_input_tools (submit_batch.py) running    *)
(* against a Cromwell server.  The server is the only store of job state:  *)
(* every job carries a batch-sample label, a batch status label            *)
(* (include/exclude) and a workflow status.  A driver walks its batch in   *)
(* input order; for each item it queries the prior included jobs with the  *)
(* same batch-sample label, resolves each of them against the rerun policy,*)
(* excludes/aborts the ones it may overwrite, submits when every prior job *)
(* may be overwritten and records the outcome in the job report.  Every    *)
(* remote call is one step and may fail; the except handler writes the     *)
(* report and re-raises.                                                   *)
(***************************************************************************)
EXTENDS Integers, Sequences, FiniteSets, TLC

\* ------------------------------------------------------------------ bounds
MaxPrior == 2        \* jobs already on the server when a run starts
MaxItems == 2        \* items of one batch
MaxRaceItems == 1    \* items of each batch when two drivers run concurrently
MaxLabelItems == 2   \* items of a label file that may be damaged
MaxToolPrior == 1    \* jobs on the server when all programs run
MaxToolItems == 1    \* items of the batch when all programs run
MaxNameLen == 3      \* characters of a batch name or sample name
MaxSheet == 1        \* samples of a sample sheet

\* --------------------------------------------------------------- constants
CROMWELL_RUNNING_STATUS == "Running"
CROMWELL_FAILED_STATUS == "Failed"
CROMWELL_ABORTED_STATUS == "Aborted"
CROMWELL_ABORTING_STATUS == "Aborting"
CROMWELL_SUCCESS_STATUS == "Succeeded"
CROMWELL_SUBMITTED_STATUS == "Submitted"
CROMWELL_BATCH_STATUS_INCLUDE_FLAG == "include"
CROMWELL_BATCH_STATUS_EXCLUDE_FLAG == "exclude"
CROMWELL_BATCH_LABEL == "cromwell-batch-label"
CROMWELL_SAMPLE_LABEL == "cromwell-sample-label"
CROMWELL_BATCH_SAMPLE_LABEL == "cromwell-batch-sample-label"
CROMWELL_UNIQUE_LABEL == "cromwell-unique-label"
CROMWELL_BATCH_STATUS_FIELD == "cromwell-batch-status"

\* the labels every workflow of a batch must carry, in the order they are checked
REQUIRED_WF_LABELS ==
    <<CROMWELL_UNIQUE_LABEL, CROMWELL_BATCH_STATUS_FIELD, CROMWELL_BATCH_LABEL,
      CROMWELL_BATCH_SAMPLE_LABEL, CROMWELL_SAMPLE_LABEL>>

\* the columns of the status report in their order; the label columns go by
\* the field names of a job record
STATUS_COL_ORDER ==
    <<"wf_id", "bstat", "sample", "unique", "batch", "bsl", "status",
      "submission", "start", "end", "workflowName">>

\* status values of the remote protocol
StatusVals ==
    {CROMWELL_SUBMITTED_STATUS, CROMWELL_RUNNING_STATUS, CROMWELL_ABORTING_STATUS,
     CROMWELL_ABORTED_STATUS, CROMWELL_FAILED_STATUS, CROMWELL_SUCCESS_STATUS}

\* choices of --batch-conflict-action
BatchConflictActions == {"rerun-all", "rerun-unless-success", "rerun-failed"}

\* A name (batch name, sample name, label value) is a sequence of characters.
\* The characters of the classes [a-zA-Z0-9] of the label pattern:
AlnumChars ==
    {"a", "b", "c", "d", "e", "f", "g", "h", "i", "j", "k", "l", "m",
     "n", "o", "p", "q", "r", "s", "t", "u", "v", "w", "x", "y", "z",
     "A", "B", "C", "D", "E", "F", "G", "H", "I", "J", "K", "L", "M",
     "N", "O", "P", "Q", "R", "S", "T", "U", "V", "W", "X", "Y", "Z",
     "0", "1", "2", "3", "4", "5", "6", "7", "8", "9"}

\* re.match("^[a-zA-Z0-9]+[a-zA-Z0-9_-]*$", lab) is not None; "$" also
\* matches before one newline that ends the string
is_valid_label(lab) ==
    LET body == IF Len(lab) > 0 /\ lab[Len(lab)] = "\n"
                THEN SubSeq(lab, 1, Len(lab) - 1) ELSE lab
    IN  /\ Len(body) >= 1
        /\ body[1] \in AlnumChars
        /\ \A n \in 2..Len(body) : body[n] \in AlnumChars \cup {"_", "-"}

\* get_wf_labels; unique_id is the value utils.get_unique_id() returned
get_wf_labels(sample_name, batch_name, workflow_name, unique_id) ==
    [label \in {REQUIRED_WF_LABELS[n] : n \in DOMAIN REQUIRED_WF_LABELS} |->
        CASE label = CROMWELL_BATCH_LABEL -> batch_name
          [] label = CROMWELL_SAMPLE_LABEL -> sample_name
          [] label = CROMWELL_BATCH_SAMPLE_LABEL -> batch_name \o <<"_">> \o sample_name
          [] label = CROMWELL_BATCH_STATUS_FIELD -> CROMWELL_BATCH_STATUS_INCLUDE_FLAG
          [] label = CROMWELL_UNIQUE_LABEL ->
                workflow_name \o <<"_">> \o batch_name \o <<"_">> \o sample_name
                   \o <<"_">> \o unique_id]

\* the workflow, the batch and the samples of the batch that is submitted
WorkflowName == <<"w", "f">>
BatchName == <<"B", "1">>
SampleNames == {<<"S", "1">>, <<"S", "2">>}
UniqueId == <<"0", "f", "3">>

\* the label sets make_batch_inputs writes for this batch
WfLabels == {get_wf_labels(sample, BatchName, WorkflowName, UniqueId) : sample \in SampleNames}

\* batch-sample labels (conflict keys) that occur in the model
BatchSampleLabels == {labels[CROMWELL_BATCH_SAMPLE_LABEL] : labels \in WfLabels}

\* the two driver processes; the second one runs only in SpecRace
Drivers == {1, 2}

\* a cell of the job report / a value that may be absent
NaN == [t |-> "NaN"]
StrCell(s) == [t |-> "str", s |-> s]
WfCell(id) == [t |-> "wf", id |-> id]
ListCell(l) == [t |-> "list", l |-> l]
None == {}
Some(x) == {x}

VARIABLES
    jobs,                     \* server: job id -> labels, status, child flag
    batch_labels,             \* driver -> sequence of label sets (the label file)
    batch_conflict_action,    \* driver -> policy
    pc,                       \* driver -> position in main()
    i,                        \* driver -> index of the current item (0-based)
    batch_conflict_wfs,       \* driver -> conflict list of the current item
    k,                        \* driver -> position in the conflict loop (0-based)
    batch_conflict_status,    \* driver -> status read by the resolver
    can_overide_conflict_wf,  \* driver -> resolver result
    abort_conflict_wf,        \* driver -> resolver result
    can_submit_wf,            \* driver -> conjunction so far
    submitted_wfs,            \* driver -> counter of submissions
    job_report,               \* driver -> rows, one per item
    report_file,              \* driver -> the report written, if any
    calls,                    \* driver -> log of the remote calls issued
    err_msg,                  \* driver -> the error validation raised, if any
    aborter,                  \* the run of abort_batch: its locals and call log
    aggregator,               \* the run of get_batch_status: its locals and call log
    maker                     \* the run of make_batch_inputs: its locals and call log

\* the state of one submit_batch run, of the other programs
driver_vars == <<batch_labels, batch_conflict_action, pc, i, batch_conflict_wfs, k,
                 batch_conflict_status, can_overide_conflict_wf, abort_conflict_wf,
                 can_submit_wf, submitted_wfs, job_report, report_file, calls, err_msg>>
tools == <<aborter, aggregator, maker>>

vars == <<jobs, driver_vars, tools>>

\* ------------------------------------------------------------ pure helpers
RECURSIVE Orderings(_)
\* the orders in which the server may list a set of job ids
Orderings(S) ==
    IF S = {} THEN {<<>>}
    ELSE UNION {{<<x>> \o rest : rest \in Orderings(S \ {x})} : x \in S}

Range(s) == {s[n] : n \in DOMAIN s}

\* resolve_batch_conflict without the elif branch for live prior jobs
resolve_batch_conflict_no_alive_check(status, action) ==
    LET alive == status \notin {CROMWELL_FAILED_STATUS, CROMWELL_SUCCESS_STATUS,
                                CROMWELL_ABORTED_STATUS, CROMWELL_ABORTING_STATUS}
        can == IF status = CROMWELL_SUCCESS_STATUS /\ action # "rerun-all" THEN FALSE
               ELSE TRUE
    IN  <<can, alive /\ can>>

\* resolve_batch_conflict with Aborting left out of the list of dead statuses
resolve_batch_conflict_aborting_alive(status, action) ==
    LET alive == status \notin {CROMWELL_FAILED_STATUS, CROMWELL_SUCCESS_STATUS,
                                CROMWELL_ABORTED_STATUS}
        can == IF status = CROMWELL_SUCCESS_STATUS /\ action # "rerun-all" THEN FALSE
               ELSE IF alive /\ action = "rerun-failed" THEN FALSE
               ELSE TRUE
    IN  <<can, alive /\ can>>

\* resolve_batch_conflict, given the status it has read
resolve_batch_conflict(status, action) ==
    LET alive == status \notin {CROMWELL_FAILED_STATUS, CROMWELL_SUCCESS_STATUS,
                                CROMWELL_ABORTED_STATUS, CROMWELL_ABORTING_STATUS}
        can == IF status = CROMWELL_SUCCESS_STATUS /\ action # "rerun-all" THEN FALSE
               ELSE IF alive /\ action = "rerun-failed" THEN FALSE
               ELSE TRUE
    IN  <<can, alive /\ can>>

\* query_workflows that returns every id the server matched
query_workflows_with_children(js, results) == results

\* query_workflows: of the jobs the server matched, the ids of those
\* without a parentWorkflowId
query_workflows(js, results) == {wf \in results : ~js[wf].child}

\* the label query of get_batch_conflicts without the batch-sample label
get_batch_conflicts_any_label(js, batch_sample_label) ==
    {wf \in DOMAIN js : /\ js[wf].bstat = CROMWELL_BATCH_STATUS_INCLUDE_FLAG
                        /\ ~js[wf].child}

\* the conflict query without the batch status condition
get_batch_conflicts_any_status(js, batch_sample_label) ==
    {wf \in DOMAIN js : js[wf].bsl = batch_sample_label /\ ~js[wf].child}

\* the label query of get_batch_conflicts
get_batch_conflicts(js, batch_sample_label) ==
    query_workflows(js, {wf \in DOMAIN js :
                            /\ js[wf].bsl = batch_sample_label
                            /\ js[wf].bstat = CROMWELL_BATCH_STATUS_INCLUDE_FLAG})

\* patch_labels with the flag test inverted
update_wf_batch_status_inverted(js, wf_id, include_in_batch) ==
    [js EXCEPT ![wf_id].bstat = IF ~include_in_batch
                                THEN CROMWELL_BATCH_STATUS_INCLUDE_FLAG
                                ELSE CROMWELL_BATCH_STATUS_EXCLUDE_FLAG]

\* patch_labels that writes the whole label set anew and leaves the
\* batch-sample label out
update_wf_batch_status_relabel(js, wf_id, include_in_batch) ==
    [js EXCEPT ![wf_id].bstat = IF include_in_batch
                                THEN CROMWELL_BATCH_STATUS_INCLUDE_FLAG
                                ELSE CROMWELL_BATCH_STATUS_EXCLUDE_FLAG,
               ![wf_id].bsl = <<>>]

\* patch_labels of the batch status label
update_wf_batch_status(js, wf_id, include_in_batch) ==
    [js EXCEPT ![wf_id].bstat = IF include_in_batch
                                THEN CROMWELL_BATCH_STATUS_INCLUDE_FLAG
                                ELSE CROMWELL_BATCH_STATUS_EXCLUDE_FLAG]

\* the server's reaction to an accepted abort request
abort(js, wf_id) ==
    [js EXCEPT ![wf_id].status =
        IF @ \in {CROMWELL_SUBMITTED_STATUS, CROMWELL_RUNNING_STATUS}
        THEN CROMWELL_ABORTING_STATUS ELSE @]

\* a submission whose label file is not passed on: the job carries no labels
submit_wf_from_dict_no_labels(js, labels) ==
    Append(js, [bsl |-> <<>>, bstat |-> "", batch |-> <<>>, sample |-> <<>>,
                unique |-> <<>>, status |-> CROMWELL_SUBMITTED_STATUS, child |-> FALSE])

\* the job the server keeps for a workflow submitted with these labels
Job(labels, status, child) ==
    [bsl |-> labels[CROMWELL_BATCH_SAMPLE_LABEL],
     bstat |-> labels[CROMWELL_BATCH_STATUS_FIELD],
     batch |-> labels[CROMWELL_BATCH_LABEL],
     sample |-> labels[CROMWELL_SAMPLE_LABEL],
     unique |-> labels[CROMWELL_UNIQUE_LABEL],
     status |-> status,
     child |-> child]

\* the server's reaction to an accepted submission: a new top-level job
\* that carries the labels of the label file
submit_wf_from_dict(js, labels) ==
    Append(js, Job(labels, CROMWELL_SUBMITTED_STATUS, FALSE))

\* validate_wf_labels that does not look at the last required label
validate_wf_labels_skip_last(labels) ==
    LET missing == {n \in 1..(Len(REQUIRED_WF_LABELS) - 1) :
                       REQUIRED_WF_LABELS[n] \notin DOMAIN labels}
        first == CHOOSE n \in missing : \A m \in missing : n <= m
        req_label == REQUIRED_WF_LABELS[first]
    IN  IF missing = {} THEN None
        ELSE IF req_label # CROMWELL_UNIQUE_LABEL
        THEN Some([exc |-> "IOError",
                   fmt |-> "Workflow '{0}' missing required label: {1}",
                   workflow |-> labels[CROMWELL_UNIQUE_LABEL],
                   label |-> req_label])
        ELSE Some([exc |-> "IOError",
                   fmt |-> "One or more workflow label dicts missing required label: {0}",
                   label |-> req_label])

\* validate_wf_labels: the error raised for the first required label that
\* is missing (its message is fmt with the workflow's unique label and the
\* missing label filled in), None when the function returns
validate_wf_labels(labels) ==
    LET missing == {n \in DOMAIN REQUIRED_WF_LABELS : REQUIRED_WF_LABELS[n] \notin DOMAIN labels}
        first == CHOOSE n \in missing : \A m \in missing : n <= m
        req_label == REQUIRED_WF_LABELS[first]
    IN  IF missing = {} THEN None
        ELSE IF req_label # CROMWELL_UNIQUE_LABEL
        THEN Some([exc |-> "IOError",
                   fmt |-> "Workflow '{0}' missing required label: {1}",
                   workflow |-> labels[CROMWELL_UNIQUE_LABEL],
                   label |-> req_label])
        ELSE Some([exc |-> "IOError",
                   fmt |-> "One or more workflow label dicts missing required label: {0}",
                   label |-> req_label])

\* the label query of abort_batch and get_batch_status: the top-level jobs
\* of a batch, optionally those with batch status include only
query_batch(js, batch_name, include_only) ==
    query_workflows(js, {wf \in DOMAIN js :
                            /\ js[wf].batch = batch_name
                            /\ include_only => js[wf].bstat = CROMWELL_BATCH_STATUS_INCLUDE_FLAG})

\* is_unique_batch_name: no top-level job carries the batch label
is_unique_batch_name(js, batch_name) == query_batch(js, batch_name, FALSE) = {}

\* a timestamp of the engine's metadata
Timestamp == [t |-> "time"]

\* the metadata the engine keeps for a job, without its labels: a job that
\* has not started has no start, a job that has not finished has no end
get_wf_metadata(js, wf_id) ==
    LET status == js[wf_id].status
        base == [status |-> status, submission |-> Timestamp, workflowName |-> WorkflowName]
    IN  IF status = CROMWELL_SUBMITTED_STATUS THEN base
        ELSE IF status \in {CROMWELL_RUNNING_STATUS, CROMWELL_ABORTING_STATUS}
        THEN [status |-> status, submission |-> Timestamp, workflowName |-> WorkflowName,
              start |-> Timestamp]
        ELSE [status |-> status, submission |-> Timestamp, workflowName |-> WorkflowName,
              start |-> Timestamp, end |-> Timestamp]

\* get_wf_summary: the status and the batch labels of a job's metadata
\* the timestamp fields are kept as far as the engine's metadata has them
get_wf_summary(js, wf_id) ==
    LET metadata == get_wf_metadata(js, wf_id)
    IN  [key \in (DOMAIN metadata \cap {"end", "start", "submission", "status", "workflowName"})
                    \cup {"wf_id", "bstat", "sample", "unique", "batch", "bsl"} |->
            CASE key = "wf_id" -> wf_id
              [] key = "bstat" -> js[wf_id].bstat
              [] key = "sample" -> js[wf_id].sample
              [] key = "unique" -> js[wf_id].unique
              [] key = "batch" -> js[wf_id].batch
              [] key = "bsl" -> js[wf_id].bsl
              [] OTHER -> metadata[key]]

\* value of a report column in a row: absent keys become NaN in the data frame
Col(row, col) == IF col \in DOMAIN row THEN row[col] ELSE NaN

\* output_job_report with the failed index taken as 1-based
output_job_report_off_by_one(report, failed_workflow_index) ==
    LET rows == [n \in DOMAIN report |->
                    [bsl |-> report[n].bsl,
                     wf_id |-> Col(report[n], "wf_id"),
                     SupercededWFs |-> Col(report[n], "SupercededWFs"),
                     Info |-> Col(report[n], "Info")]]
    IN  IF failed_workflow_index # None
        THEN [written |-> TRUE, rows |-> rows,
              Failed |-> [n \in DOMAIN report |->
                            IF Some(n) = failed_workflow_index
                            THEN "FAILED WORKFLOW" ELSE ""]]
        ELSE [written |-> TRUE, rows |-> rows]

\* output_job_report that drops the rows after the failed index
output_job_report_reached_only(report, failed_workflow_index) ==
    LET reached == IF failed_workflow_index = None THEN DOMAIN report
                   ELSE {n \in DOMAIN report : \E f \in failed_workflow_index : n - 1 <= f}
        rows == [n \in reached |->
                    [bsl |-> report[n].bsl,
                     wf_id |-> Col(report[n], "wf_id"),
                     SupercededWFs |-> Col(report[n], "SupercededWFs"),
                     Info |-> Col(report[n], "Info")]]
    IN  IF failed_workflow_index # None
        THEN [written |-> TRUE, rows |-> rows,
              Failed |-> [n \in reached |->
                            IF Some(n - 1) = failed_workflow_index
                            THEN "FAILED WORKFLOW" ELSE ""]]
        ELSE [written |-> TRUE, rows |-> rows]

\* output_job_report: the data frame that is written
output_job_report(report, failed_workflow_index) ==
    LET rows == [n \in DOMAIN report |->
                    [bsl |-> report[n].bsl,
                     wf_id |-> Col(report[n], "wf_id"),
                     SupercededWFs |-> Col(report[n], "SupercededWFs"),
                     Info |-> Col(report[n], "Info")]]
    IN  IF failed_workflow_index # None
        THEN [written |-> TRUE, rows |-> rows,
              Failed |-> [n \in DOMAIN report |->
                            IF Some(n - 1) = failed_workflow_index
                            THEN "FAILED WORKFLOW" ELSE ""]]
        ELSE [written |-> TRUE, rows |-> rows]

\* ------------------------------------------------------------------- state
JobRecs ==
    {[Job(labels, status, child) EXCEPT !.bstat = bstat] :
        labels \in WfLabels,
        bstat \in {CROMWELL_BATCH_STATUS_INCLUDE_FLAG, CROMWELL_BATCH_STATUS_EXCLUDE_FLAG},
        status \in StatusVals,
        child \in BOOLEAN}

\* a total order on job records
StatusOrder == <<CROMWELL_SUBMITTED_STATUS, CROMWELL_RUNNING_STATUS, CROMWELL_ABORTING_STATUS,
                 CROMWELL_ABORTED_STATUS, CROMWELL_FAILED_STATUS, CROMWELL_SUCCESS_STATUS>>
Rank(job) ==
    (IF job.sample = <<"S", "1">> THEN 0 ELSE 24)
    + (IF job.child THEN 12 ELSE 0)
    + (IF job.bstat = CROMWELL_BATCH_STATUS_INCLUDE_FLAG THEN 0 ELSE 6)
    + (CHOOSE n \in 1..6 : StatusOrder[n] = job.status)

\* The jobs on the server when a run starts.  The server lists query results
\* in any order, so job ids carry no meaning and one numbering of each
\* multiset of prior jobs stands for all of them.  The status of a job that
\* is excluded from the start is never read; one live and one terminal
\* status stand for all of them.  A child job (a sub-workflow, which carries
\* the labels of its parent) is included and running.
PriorJobs ==
    {js \in UNION {[1..n -> JobRecs] : n \in 0..MaxPrior} :
        /\ \A n \in 1..(Len(js) - 1) : Rank(js[n]) <= Rank(js[n + 1])
        /\ \A n \in 1..Len(js) :
              /\ js[n].bstat = CROMWELL_BATCH_STATUS_EXCLUDE_FLAG
                   => js[n].status \in {CROMWELL_RUNNING_STATUS, CROMWELL_SUCCESS_STATUS}
              /\ js[n].child
                   => /\ js[n].bstat = CROMWELL_BATCH_STATUS_INCLUDE_FLAG
                      /\ js[n].status = CROMWELL_RUNNING_STATUS}

\* the label files of up to max items that make_batch_inputs can have written
Batches(max) == UNION {[1..n -> WfLabels] : n \in 1..max}

\* job_report = copy.deepcopy(batch_labels)
InitReport(labels) ==
    [n \in DOMAIN labels |-> [bsl |-> labels[n][CROMWELL_BATCH_SAMPLE_LABEL]]]

\* abort_batch before its first remote call
AborterInit(batch_name) ==
    [pc |-> "health", batch_name |-> batch_name, batch_wfs |-> <<>>, n |-> 0,
     wf_status |-> "", aborted_wfs |-> 0, running_wfs |-> 0, calls |-> <<>>]

\* get_batch_status before its first remote call
AggregatorInit(batch_name, show_excluded) ==
    [pc |-> "health", batch_name |-> batch_name, show_excluded |-> show_excluded,
     batch_wfs |-> <<>>, wf_summaries |-> <<>>, col_order |-> <<>>, report_df |-> <<>>,
     report_file |-> [written |-> FALSE, columns |-> <<>>, rows |-> <<>>], calls |-> <<>>]

\* make_batch_inputs when it parses its arguments
MakerInit(batch_name, sample_names, force_overwrite, wf_type) ==
    [pc |-> "args", batch_name |-> batch_name, sample_names |-> sample_names,
     force_overwrite |-> force_overwrite, wf_type |-> wf_type,
     labels_json |-> <<>>, calls |-> <<>>]

\* none of the other programs runs
ToolsOff ==
    /\ aborter = [AborterInit(<<>>) EXCEPT !.pc = "off"]
    /\ aggregator = [AggregatorInit(<<>>, FALSE) EXCEPT !.pc = "off"]
    /\ maker = [MakerInit(<<>>, <<>>, FALSE, "scatter") EXCEPT !.pc = "off"]

InitDriver(running) ==
    /\ pc = [d \in Drivers |-> IF d \in running THEN "validate" ELSE "off"]
    /\ \A d \in Drivers \ running : batch_labels[d] = <<>>
    /\ \A d \in Drivers \ running : batch_conflict_action[d] = "rerun-failed"
    /\ i = [d \in Drivers |-> 0]
    /\ batch_conflict_wfs = [d \in Drivers |-> <<>>]
    /\ k = [d \in Drivers |-> 0]
    /\ batch_conflict_status = [d \in Drivers |-> ""]
    /\ can_overide_conflict_wf = [d \in Drivers |-> TRUE]
    /\ abort_conflict_wf = [d \in Drivers |-> FALSE]
    /\ can_submit_wf = [d \in Drivers |-> TRUE]
    /\ submitted_wfs = [d \in Drivers |-> 0]
    /\ job_report = [d \in Drivers |-> <<>>]
    /\ report_file = [d \in Drivers |-> [written |-> FALSE]]
    /\ calls = [d \in Drivers |-> <<>>]
    /\ err_msg = [d \in Drivers |-> None]

\* one driver run against a server that already holds up to MaxPrior jobs
Init ==
    /\ jobs \in PriorJobs
    /\ batch_labels \in [Drivers -> Batches(MaxItems) \cup {<<>>}]
    /\ batch_labels[1] # <<>>
    /\ batch_conflict_action \in [Drivers -> BatchConflictActions]
    /\ InitDriver({1})
    /\ ToolsOff

\* ----------------------------------------------------------------- actions
wf_labels(d) == batch_labels[d][i[d] + 1]
batch_conflict_wf(d) == batch_conflict_wfs[d][k[d] + 1]

\* append one remote call to the log of driver d
Call(d, entry) == calls' = [calls EXCEPT ![d] = Append(@, entry)]

\* pc after one iteration of the conflict loop
AfterConflict(d) == IF k[d] + 1 < Len(batch_conflict_wfs[d]) THEN "status" ELSE "submit"

\* end of one iteration where the last conflict alone decides
EndConflictIteration_last_wins(d, can) ==
    /\ can_submit_wf' = [can_submit_wf EXCEPT ![d] = can]
    /\ k' = [k EXCEPT ![d] = @ + 1]
    /\ pc' = [pc EXCEPT ![d] = AfterConflict(d)]

\* end of one iteration of the conflict loop (line 236)
EndConflictIteration(d, can) ==
    /\ can_submit_wf' = [can_submit_wf EXCEPT ![d] = @ /\ can]
    /\ k' = [k EXCEPT ![d] = @ + 1]
    /\ pc' = [pc EXCEPT ![d] = AfterConflict(d)]

\* validation of the first label set of the label file only
ValidateWfLabels_first_only(d) ==
    /\ pc[d] = "validate"
    /\ IF validate_wf_labels(batch_labels[d][1]) = None
       THEN /\ pc' = [pc EXCEPT ![d] = "health"]
            /\ UNCHANGED err_msg
       ELSE /\ pc' = [pc EXCEPT ![d] = "invalid"]
            /\ err_msg' = [err_msg EXCEPT ![d] = validate_wf_labels(batch_labels[d][1])]
    /\ UNCHANGED <<jobs, batch_labels, batch_conflict_action, i, batch_conflict_wfs, k,
                   batch_conflict_status, can_overide_conflict_wf, abort_conflict_wf,
                   can_submit_wf, submitted_wfs, job_report, report_file, calls, tools>>

\* lines 189-193: every label set of the label file is validated, in file
\* order; the error of the first one that fails leaves main()
ValidateWfLabels(d) ==
    /\ pc[d] = "validate"
    /\ LET bad == {n \in DOMAIN batch_labels[d] :
                      validate_wf_labels(batch_labels[d][n]) # None}
       IN  IF bad = {}
           THEN /\ pc' = [pc EXCEPT ![d] = "health"]
                /\ UNCHANGED err_msg
           ELSE /\ pc' = [pc EXCEPT ![d] = "invalid"]
                /\ err_msg' = [err_msg EXCEPT ![d] =
                      validate_wf_labels(
                         batch_labels[d][CHOOSE n \in bad : \A m \in bad : n <= m])]
    /\ UNCHANGED <<jobs, batch_labels, batch_conflict_action, i, batch_conflict_wfs, k,
                   batch_conflict_status, can_overide_conflict_wf, abort_conflict_wf,
                   can_submit_wf, submitted_wfs, job_report, report_file, calls, tools>>

\* lines 196-203: the health check succeeds, the report is initialised
ValidateCromwellServer(d) ==
    /\ pc[d] = "health"
    /\ Call(d, [op |-> "health", item |-> -1, ok |-> TRUE])
    /\ job_report' = [job_report EXCEPT ![d] = InitReport(batch_labels[d])]
    /\ pc' = [pc EXCEPT ![d] = "query"]
    /\ UNCHANGED <<jobs, batch_labels, batch_conflict_action, i, batch_conflict_wfs, k,
                   batch_conflict_status, can_overide_conflict_wf, abort_conflict_wf,
                   can_submit_wf, submitted_wfs, report_file, err_msg, tools>>

\* lines 196-197: the health check raises; it is made outside the try block
\* of the batch loop, so the error leaves main() and no report is written
ValidateCromwellServerFails(d) ==
    /\ pc[d] = "health"
    /\ Call(d, [op |-> "health", item |-> -1, ok |-> FALSE])
    /\ pc' = [pc EXCEPT ![d] = "down"]
    /\ UNCHANGED <<jobs, batch_labels, batch_conflict_action, i, batch_conflict_wfs, k,
                   batch_conflict_status, can_overide_conflict_wf, abort_conflict_wf,
                   can_submit_wf, submitted_wfs, job_report, report_file, err_msg, tools>>

\* a conflict query by the batch label alone
GetBatchConflicts_whole_batch(d) ==
    /\ pc[d] = "query"
    /\ \E order \in Orderings(query_batch(jobs, wf_labels(d)[CROMWELL_BATCH_LABEL], TRUE)) :
          /\ batch_conflict_wfs' = [batch_conflict_wfs EXCEPT ![d] = order]
          /\ pc' = [pc EXCEPT ![d] = IF order = <<>> THEN "submit" ELSE "status"]
          /\ Call(d, [op |-> "query", item |-> i[d], ok |-> TRUE, found |-> order])
    /\ can_submit_wf' = [can_submit_wf EXCEPT ![d] = TRUE]
    /\ k' = [k EXCEPT ![d] = 0]
    /\ UNCHANGED <<jobs, batch_labels, batch_conflict_action, i, batch_conflict_status,
                   can_overide_conflict_wf, abort_conflict_wf, submitted_wfs,
                   job_report, report_file,
                   err_msg, tools>>

\* lines 205-218: next item, query its batch conflicts
GetBatchConflicts(d) ==
    /\ pc[d] = "query"
    /\ \E order \in Orderings(get_batch_conflicts(jobs, wf_labels(d)[CROMWELL_BATCH_SAMPLE_LABEL])) :
          /\ batch_conflict_wfs' = [batch_conflict_wfs EXCEPT ![d] = order]
          /\ pc' = [pc EXCEPT ![d] = IF order = <<>> THEN "submit" ELSE "status"]
          /\ Call(d, [op |-> "query", item |-> i[d], ok |-> TRUE, found |-> order])
    /\ can_submit_wf' = [can_submit_wf EXCEPT ![d] = TRUE]
    /\ k' = [k EXCEPT ![d] = 0]
    /\ UNCHANGED <<jobs, batch_labels, batch_conflict_action, i, batch_conflict_status,
                   can_overide_conflict_wf, abort_conflict_wf, submitted_wfs,
                   job_report, report_file,
                   err_msg, tools>>

\* lines 220-222: read the prior job's status and resolve the conflict
ResolveBatchConflict(d) ==
    /\ pc[d] = "status"
    /\ LET status == jobs[batch_conflict_wf(d)].status
           r == resolve_batch_conflict(status, batch_conflict_action[d])
       IN  /\ batch_conflict_status' = [batch_conflict_status EXCEPT ![d] = status]
           /\ can_overide_conflict_wf' = [can_overide_conflict_wf EXCEPT ![d] = r[1]]
           /\ abort_conflict_wf' = [abort_conflict_wf EXCEPT ![d] = r[2]]
           /\ IF r[1] THEN /\ pc' = [pc EXCEPT ![d] = "patch"]
                           /\ UNCHANGED <<can_submit_wf, k>>
              ELSE IF r[2] THEN /\ pc' = [pc EXCEPT ![d] = "abort"]
                                /\ UNCHANGED <<can_submit_wf, k>>
              ELSE EndConflictIteration(d, r[1])
           /\ Call(d, [op |-> "status", item |-> i[d], ok |-> TRUE,
                       wf |-> batch_conflict_wf(d), status |-> status,
                       can_overwrite |-> r[1], must_abort |-> r[2]])
    /\ UNCHANGED <<jobs, batch_labels, batch_conflict_action, i, batch_conflict_wfs,
                   submitted_wfs, job_report, report_file,
                   err_msg, tools>>

\* the driver goes on as if the prior job were excluded, without the patch
UpdateWfBatchStatus_unpatched(d) ==
    /\ pc[d] = "patch"
    /\ UNCHANGED jobs
    /\ IF abort_conflict_wf[d]
       THEN /\ pc' = [pc EXCEPT ![d] = "abort"]
            /\ UNCHANGED <<can_submit_wf, k>>
       ELSE EndConflictIteration(d, can_overide_conflict_wf[d])
    /\ Call(d, [op |-> "patch", item |-> i[d], ok |-> TRUE, wf |-> batch_conflict_wf(d)])
    /\ UNCHANGED <<batch_labels, batch_conflict_action, i, batch_conflict_wfs,
                   batch_conflict_status, can_overide_conflict_wf, abort_conflict_wf,
                   submitted_wfs, job_report, report_file,
                   err_msg, tools>>

\* lines 225-226: exclude the prior job from the active batch
UpdateWfBatchStatus(d) ==
    /\ pc[d] = "patch"
    /\ jobs' = update_wf_batch_status(jobs, batch_conflict_wf(d), FALSE)
    /\ IF abort_conflict_wf[d]
       THEN /\ pc' = [pc EXCEPT ![d] = "abort"]
            /\ UNCHANGED <<can_submit_wf, k>>
       ELSE EndConflictIteration(d, can_overide_conflict_wf[d])
    /\ Call(d, [op |-> "patch", item |-> i[d], ok |-> TRUE, wf |-> batch_conflict_wf(d)])
    /\ UNCHANGED <<batch_labels, batch_conflict_action, i, batch_conflict_wfs,
                   batch_conflict_status, can_overide_conflict_wf, abort_conflict_wf,
                   submitted_wfs, job_report, report_file,
                   err_msg, tools>>

\* lines 229-236: abort the prior job
AbortConflictWf(d) ==
    /\ pc[d] = "abort"
    /\ jobs' = abort(jobs, batch_conflict_wf(d))
    /\ EndConflictIteration(d, can_overide_conflict_wf[d])
    /\ Call(d, [op |-> "abort", item |-> i[d], ok |-> TRUE, wf |-> batch_conflict_wf(d)])
    /\ UNCHANGED <<batch_labels, batch_conflict_action, i, batch_conflict_wfs,
                   batch_conflict_status, can_overide_conflict_wf, abort_conflict_wf,
                   submitted_wfs, job_report, report_file,
                   err_msg, tools>>

\* the loop goes to the next item without recording the outcome
Record_unrecorded(d, wf_id, msg) ==
    /\ UNCHANGED job_report
    /\ i' = [i EXCEPT ![d] = @ + 1]
    /\ pc' = [pc EXCEPT ![d] = IF i[d] + 1 < Len(batch_labels[d]) THEN "query" ELSE "finish"]

\* lines 263-265 and the loop header: record the outcome, go to the next item
Record(d, wf_id, msg) ==
    /\ job_report' = [job_report EXCEPT ![d][i[d] + 1] =
                        [bsl |-> @.bsl, wf_id |-> wf_id,
                         SupercededWFs |-> ListCell(batch_conflict_wfs[d]),
                         Info |-> StrCell(msg)]]
    /\ i' = [i EXCEPT ![d] = @ + 1]
    /\ pc' = [pc EXCEPT ![d] = IF i[d] + 1 < Len(batch_labels[d]) THEN "query" ELSE "finish"]

\* lines 244-265: the item may be submitted
SubmitWf(d) ==
    /\ pc[d] = "submit"
    /\ can_submit_wf[d]
    /\ jobs' = submit_wf_from_dict(jobs, wf_labels(d))
    /\ submitted_wfs' = [submitted_wfs EXCEPT ![d] = @ + 1]
    /\ Record(d, WfCell(Len(jobs) + 1), "")
    /\ Call(d, [op |-> "submit", item |-> i[d], ok |-> TRUE, wf |-> Len(jobs) + 1])
    /\ UNCHANGED <<batch_labels, batch_conflict_action, batch_conflict_wfs, k,
                   batch_conflict_status, can_overide_conflict_wf, abort_conflict_wf,
                   can_submit_wf, report_file,
                   err_msg, tools>>

\* a blocked item that ends the loop instead of going on
SkipWf_break(d) ==
    /\ pc[d] = "submit"
    /\ ~can_submit_wf[d]
    /\ job_report' = [job_report EXCEPT ![d][i[d] + 1] =
                        [bsl |-> @.bsl, wf_id |-> StrCell("Not submitted"),
                         SupercededWFs |-> ListCell(batch_conflict_wfs[d]),
                         Info |-> StrCell("SupercededWF is either running/submitted or was successful.")]]
    /\ i' = [i EXCEPT ![d] = @ + 1]
    /\ pc' = [pc EXCEPT ![d] = "finish"]
    /\ UNCHANGED <<jobs, batch_labels, batch_conflict_action, batch_conflict_wfs, k,
                   batch_conflict_status, can_overide_conflict_wf, abort_conflict_wf,
                   can_submit_wf, submitted_wfs, report_file, calls,
                   err_msg, tools>>

\* lines 240-241, 263-265: the item is blocked by a prior job
SkipWf(d) ==
    /\ pc[d] = "submit"
    /\ ~can_submit_wf[d]
    /\ Record(d, StrCell("Not submitted"),
              "SupercededWF is either running/submitted or was successful.")
    /\ UNCHANGED <<jobs, batch_labels, batch_conflict_action, batch_conflict_wfs, k,
                   batch_conflict_status, can_overide_conflict_wf, abort_conflict_wf,
                   can_submit_wf, submitted_wfs, report_file, calls,
                   err_msg, tools>>

\* the remote call the driver is about to make
PendingCall(d) ==
    IF pc[d] \in {"query", "submit"}
    THEN [op |-> pc[d], item |-> i[d], ok |-> FALSE]
    ELSE [op |-> pc[d], item |-> i[d], ok |-> FALSE, wf |-> batch_conflict_wf(d)]

\* a remote call raises (raise_for_status, transport failure): enter line 267
RemoteCallFails(d) ==
    /\ \/ pc[d] \in {"query", "status", "patch", "abort"}
       \/ pc[d] = "submit" /\ can_submit_wf[d]
    /\ Call(d, PendingCall(d))
    /\ pc' = [pc EXCEPT ![d] = "except"]
    /\ UNCHANGED <<jobs, batch_labels, batch_conflict_action, i, batch_conflict_wfs, k,
                   batch_conflict_status, can_overide_conflict_wf, abort_conflict_wf,
                   can_submit_wf, submitted_wfs, job_report, report_file,
                   err_msg, tools>>

\* an except handler that writes the report and goes on with the next item
ExceptHandler_continue(d) ==
    /\ pc[d] = "except"
    /\ report_file' = [report_file EXCEPT ![d] = output_job_report(job_report[d], Some(i[d]))]
    /\ pc' = [pc EXCEPT ![d] = IF i[d] + 1 < Len(batch_labels[d]) THEN "query" ELSE "raised"]
    /\ i' = [i EXCEPT ![d] = IF i[d] + 1 < Len(batch_labels[d]) THEN @ + 1 ELSE @]
    /\ UNCHANGED <<jobs, batch_labels, batch_conflict_action, batch_conflict_wfs, k,
                   batch_conflict_status, can_overide_conflict_wf, abort_conflict_wf,
                   can_submit_wf, submitted_wfs, job_report, calls,
                   err_msg, tools>>

\* an except handler that takes back the exclude patches of the failed item
ExceptHandler_rollback(d) ==
    /\ pc[d] = "except"
    /\ report_file' = [report_file EXCEPT ![d] = output_job_report(job_report[d], Some(i[d]))]
    /\ pc' = [pc EXCEPT ![d] = "raised"]
    /\ jobs' = [wf \in DOMAIN jobs |->
                  IF \E p \in DOMAIN calls[d] :
                        /\ calls[d][p].op = "patch" /\ calls[d][p].ok
                        /\ calls[d][p].item = i[d] /\ calls[d][p].wf = wf
                  THEN [jobs[wf] EXCEPT !.bstat = CROMWELL_BATCH_STATUS_INCLUDE_FLAG]
                  ELSE jobs[wf]]
    /\ UNCHANGED <<batch_labels, batch_conflict_action, i, batch_conflict_wfs, k,
                   batch_conflict_status, can_overide_conflict_wf, abort_conflict_wf,
                   can_submit_wf, submitted_wfs, job_report, calls,
                   err_msg, tools>>

\* lines 267-273: write the report with the failed index, then re-raise
ExceptHandler(d) ==
    /\ pc[d] = "except"
    /\ report_file' = [report_file EXCEPT ![d] = output_job_report(job_report[d], Some(i[d]))]
    /\ pc' = [pc EXCEPT ![d] = "raised"]
    /\ UNCHANGED <<jobs, batch_labels, batch_conflict_action, i, batch_conflict_wfs, k,
                   batch_conflict_status, can_overide_conflict_wf, abort_conflict_wf,
                   can_submit_wf, submitted_wfs, job_report, calls,
                   err_msg, tools>>

\* lines 275-279: the loop ended, write the report
Finish(d) ==
    /\ pc[d] = "finish"
    /\ report_file' = [report_file EXCEPT ![d] = output_job_report(job_report[d], None)]
    /\ pc' = [pc EXCEPT ![d] = "done"]
    /\ UNCHANGED <<jobs, batch_labels, batch_conflict_action, i, batch_conflict_wfs, k,
                   batch_conflict_status, can_overide_conflict_wf, abort_conflict_wf,
                   can_submit_wf, submitted_wfs, job_report, calls,
                   err_msg, tools>>

\* status transitions the server makes on its own
EngineNext(status) ==
    CASE status = CROMWELL_SUBMITTED_STATUS -> {CROMWELL_RUNNING_STATUS}
      [] status = CROMWELL_RUNNING_STATUS -> {CROMWELL_SUCCESS_STATUS, CROMWELL_FAILED_STATUS}
      [] status = CROMWELL_ABORTING_STATUS -> {CROMWELL_ABORTED_STATUS}
      [] OTHER -> {}

\* the server moves a job along its lifecycle; only the moves a driver can
\* observe are taken: those of the job whose status it is about to read or
\* which it is about to abort
EngineStep ==
    \E d \in Drivers :
       /\ pc[d] \in {"status", "abort"}
       /\ \E s \in EngineNext(jobs[batch_conflict_wf(d)].status) :
             jobs' = [jobs EXCEPT ![batch_conflict_wf(d)].status = s]
       /\ UNCHANGED <<batch_labels, batch_conflict_action, pc, i, batch_conflict_wfs, k,
                      batch_conflict_status, can_overide_conflict_wf, abort_conflict_wf,
                      can_submit_wf, submitted_wfs, job_report, report_file, calls,
                   err_msg, tools>>

Next ==
    \/ \E d \in Drivers : ValidateWfLabels(d)
    \/ \E d \in Drivers : ValidateCromwellServer(d)
    \/ \E d \in Drivers : ValidateCromwellServerFails(d)
    \/ \E d \in Drivers : GetBatchConflicts(d)
    \/ \E d \in Drivers : ResolveBatchConflict(d)
    \/ \E d \in Drivers : UpdateWfBatchStatus(d)
    \/ \E d \in Drivers : AbortConflictWf(d)
    \/ \E d \in Drivers : SubmitWf(d)
    \/ \E d \in Drivers : SkipWf(d)
    \/ \E d \in Drivers : RemoteCallFails(d)
    \/ \E d \in Drivers : ExceptHandler(d)
    \/ \E d \in Drivers : Finish(d)
    \/ EngineStep

Spec == Init /\ [][Next]_vars

\* two driver runs started concurrently against a server that holds no job
InitRace ==
    /\ jobs = <<>>
    /\ batch_labels \in [Drivers -> Batches(MaxRaceItems)]
    /\ batch_conflict_action \in [Drivers -> BatchConflictActions]
    /\ InitDriver(Drivers)
    /\ ToolsOff

SpecRace == InitRace /\ [][Next]_vars

\* a label set from which the user removed tags
Damaged(labels) == {[label \in keys |-> labels[label]] : keys \in SUBSET DOMAIN labels}

\* label sets for names that do not match the label pattern: a sample name
\* of the sample sheet with a blank in it, a batch name put in by hand
BadNameLabels ==
    {get_wf_labels(<<"S", " ", "1">>, BatchName, WorkflowName, UniqueId),
     get_wf_labels(<<"S", "1">>, <<"_", "B">>, WorkflowName, UniqueId)}

\* the label files of up to max items a run can be started with
LabelFiles(max) ==
    UNION {[1..n -> Damaged(get_wf_labels(<<"S", "1">>, BatchName, WorkflowName, UniqueId))
                      \cup WfLabels \cup BadNameLabels] : n \in 1..max}

\* one driver run, started with any label file, against an empty server
InitLabels ==
    /\ jobs = <<>>
    /\ \E file \in LabelFiles(MaxLabelItems) :
          batch_labels = [d \in Drivers |-> IF d = 1 THEN file ELSE <<>>]
    /\ batch_conflict_action \in [Drivers -> BatchConflictActions]
    /\ InitDriver({1})
    /\ ToolsOff

SpecLabels == InitLabels /\ [][Next]_vars

\* ---------------------------------------------------------------- abort_batch
\* the aborter after one iteration of its loop over the batch (line 88)
AbortBatchNext(a) ==
    [a EXCEPT !.n = @ + 1,
              !.pc = IF a.n + 1 < Len(a.batch_wfs) THEN "status" ELSE "done"]

\* abort_batch.py lines 68-69: the health check
AbortBatchHealth ==
    /\ aborter.pc = "health"
    /\ aborter' = [aborter EXCEPT !.pc = "query",
                                  !.calls = Append(@, [op |-> "health", ok |-> TRUE])]
    /\ UNCHANGED <<jobs, driver_vars, aggregator, maker>>

\* lines 72-77: query the jobs of the batch; no job is an error
AbortBatchQuery ==
    /\ aborter.pc = "query"
    /\ \E order \in Orderings(query_batch(jobs, aborter.batch_name, FALSE)) :
          aborter' = [aborter EXCEPT
                         !.batch_wfs = order,
                         !.pc = IF order = <<>> THEN "no_batch" ELSE "status",
                         !.calls = Append(@, [op |-> "query", ok |-> TRUE, found |-> order])]
    /\ UNCHANGED <<jobs, driver_vars, aggregator, maker>>

\* lines 80-89: read the status of the next job of the batch
AbortBatchStatus ==
    /\ aborter.pc = "status"
    /\ LET wf == aborter.batch_wfs[aborter.n + 1]
           wf_status == jobs[wf].status
           terminal == wf_status \in {CROMWELL_ABORTING_STATUS, CROMWELL_ABORTED_STATUS,
                                      CROMWELL_SUCCESS_STATUS, CROMWELL_FAILED_STATUS}
       IN  aborter' = [(IF terminal THEN AbortBatchNext(aborter)
                        ELSE [aborter EXCEPT !.pc = "abort"]) EXCEPT
                          !.wf_status = wf_status,
                          !.calls = Append(@, [op |-> "status", ok |-> TRUE, wf |-> wf,
                                               status |-> wf_status])]
    /\ UNCHANGED <<jobs, driver_vars, aggregator, maker>>

\* lines 90-98: the abort request is accepted
AbortBatchAbort ==
    /\ aborter.pc = "abort"
    /\ LET wf == aborter.batch_wfs[aborter.n + 1]
       IN  /\ jobs' = abort(jobs, wf)
           /\ aborter' = [AbortBatchNext(aborter) EXCEPT
                             !.aborted_wfs = @ + 1,
                             !.running_wfs = @ + 1,
                             !.calls = Append(@, [op |-> "abort", ok |-> TRUE, wf |-> wf])]
    /\ UNCHANGED <<driver_vars, aggregator, maker>>

\* the HTTP error of an abort request is not caught and ends the run
AbortBatchAbortFails_raise ==
    /\ aborter.pc = "abort"
    /\ LET wf == aborter.batch_wfs[aborter.n + 1]
       IN  aborter' = [aborter EXCEPT
                          !.pc = "raised",
                          !.running_wfs = @ + 1,
                          !.calls = Append(@, [op |-> "abort", ok |-> FALSE, wf |-> wf])]
    /\ UNCHANGED <<jobs, driver_vars, aggregator, maker>>

\* lines 90-98: the abort request returns an HTTP error, which is caught
AbortBatchAbortFails ==
    /\ aborter.pc = "abort"
    /\ LET wf == aborter.batch_wfs[aborter.n + 1]
       IN  aborter' = [AbortBatchNext(aborter) EXCEPT
                          !.running_wfs = @ + 1,
                          !.calls = Append(@, [op |-> "abort", ok |-> FALSE, wf |-> wf])]
    /\ UNCHANGED <<jobs, driver_vars, aggregator, maker>>

\* the health check, the query or a status read raises: the error leaves main()
AbortBatchCallFails ==
    /\ aborter.pc \in {"health", "query", "status"}
    /\ aborter' = [aborter EXCEPT !.pc = "raised",
                                  !.calls = Append(@, [op |-> aborter.pc, ok |-> FALSE])]
    /\ UNCHANGED <<jobs, driver_vars, aggregator, maker>>

\* ----------------------------------------------------------- get_batch_status
\* get_batch_status.py lines 89-90: the health check
GetBatchStatusHealth ==
    /\ aggregator.pc = "health"
    /\ aggregator' = [aggregator EXCEPT !.pc = "query",
                                        !.calls = Append(@, [op |-> "health", ok |-> TRUE])]
    /\ UNCHANGED <<jobs, driver_vars, aborter, maker>>

\* lines 93-103: query the jobs of the batch, the included ones only unless
\* --show-excluded is given; no job is an error
GetBatchStatusQuery ==
    /\ aggregator.pc = "query"
    /\ \E order \in Orderings(query_batch(jobs, aggregator.batch_name,
                                           ~aggregator.show_excluded)) :
          aggregator' = [aggregator EXCEPT
                            !.batch_wfs = order,
                            !.pc = IF order = <<>> THEN "no_batch" ELSE "summary",
                            !.calls = Append(@, [op |-> "query", ok |-> TRUE, found |-> order])]
    /\ UNCHANGED <<jobs, driver_vars, aborter, maker>>

\* lines 107-112: fetch the summary of the next job
GetBatchStatusSummary ==
    /\ aggregator.pc = "summary"
    /\ LET wf == aggregator.batch_wfs[Len(aggregator.wf_summaries) + 1]
       IN  aggregator' = [aggregator EXCEPT
                             !.wf_summaries = Append(@, get_wf_summary(jobs, wf)),
                             !.pc = IF Len(aggregator.wf_summaries) + 1 < Len(aggregator.batch_wfs)
                                    THEN "summary" ELSE "tabulate",
                             !.calls = Append(@, [op |-> "metadata", ok |-> TRUE, wf |-> wf])]
    /\ UNCHANGED <<jobs, driver_vars, aborter, maker>>

\* lines 115-130: the data frame is built and, unless --show-excluded is
\* given, cut down to the included rows; the loop over const.WF_STATUS_VALS,
\* a name contants.py does not define, then raises AttributeError, so no
\* report is written
GetBatchStatusTabulate ==
    /\ aggregator.pc = "tabulate"
    /\ LET columns == UNION {DOMAIN aggregator.wf_summaries[n] :
                                n \in DOMAIN aggregator.wf_summaries}
           col_order == SelectSeq(STATUS_COL_ORDER, LAMBDA x : x \in columns)
           report_df == [n \in DOMAIN aggregator.wf_summaries |->
                           [x \in Range(col_order) |-> Col(aggregator.wf_summaries[n], x)]]
       IN  aggregator' = [aggregator EXCEPT
                             !.col_order = col_order,
                             !.report_df = IF aggregator.show_excluded THEN report_df
                                           ELSE SelectSeq(report_df,
                                                   LAMBDA row : row.bstat = CROMWELL_BATCH_STATUS_INCLUDE_FLAG),
                             !.pc = "raised"]
    /\ UNCHANGED <<jobs, driver_vars, aborter, maker>>

\* the health check, the query or a metadata read raises
GetBatchStatusCallFails ==
    /\ aggregator.pc \in {"health", "query", "summary"}
    /\ aggregator' = [aggregator EXCEPT
                          !.pc = "raised",
                          !.calls = Append(@, [op |-> IF aggregator.pc = "summary" THEN "metadata"
                                                      ELSE aggregator.pc,
                                               ok |-> FALSE])]
    /\ UNCHANGED <<jobs, driver_vars, aborter, maker>>

\* ---------------------------------------------------------- make_batch_inputs
\* the values get_unique_id can return
UniqueIds == {UniqueId, <<"0", "f", "4">>}

\* make_batch_inputs.py lines 84-110: --batch-name must be a valid label
\* (cli.batch_type_arg); the sample sheet must hold one or more samples with
\* unique ids (InputSampleSheet.validate)
MakeBatchInputsParse ==
    /\ maker.pc = "args"
    /\ maker' = [maker EXCEPT !.pc =
                    IF ~is_valid_label(maker.batch_name) THEN "usage_error"
                    ELSE IF \/ Len(maker.sample_names) = 0
                            \/ Cardinality(Range(maker.sample_names)) # Len(maker.sample_names)
                    THEN "invalid_sheet"
                    ELSE "health"]
    /\ UNCHANGED <<jobs, driver_vars, aborter, aggregator>>

\* lines 113-114: the health check
MakeBatchInputsHealth ==
    /\ maker.pc = "health"
    /\ maker' = [maker EXCEPT !.pc = "unique",
                              !.calls = Append(@, [op |-> "health", ok |-> TRUE])]
    /\ UNCHANGED <<jobs, driver_vars, aborter, aggregator>>

\* lines 117-120: a batch name that is in use is an error unless --force
MakeBatchInputsUnique ==
    /\ maker.pc = "unique"
    /\ LET unique == is_unique_batch_name(jobs, maker.batch_name)
       IN  maker' = [maker EXCEPT
                        !.pc = IF ~unique /\ ~maker.force_overwrite
                               THEN "not_unique" ELSE "labels",
                        !.calls = Append(@, [op |-> "query", ok |-> TRUE, unique |-> unique,
                                             found |-> query_batch(jobs, maker.batch_name, FALSE)])]
    /\ UNCHANGED <<jobs, driver_vars, aborter, aggregator>>

\* lines 123-167: one label set per sample (scatter) or one for the batch
\* (gather), written to the label file
MakeBatchInputsLabels ==
    /\ maker.pc = "labels"
    /\ IF maker.wf_type = "scatter"
       THEN \E ids \in [DOMAIN maker.sample_names -> UniqueIds] :
               maker' = [maker EXCEPT
                            !.pc = "done",
                            !.labels_json =
                                [n \in DOMAIN maker.sample_names |->
                                    get_wf_labels(maker.sample_names[n], maker.batch_name,
                                                  WorkflowName, ids[n])]]
       ELSE \E id \in UniqueIds :
               maker' = [maker EXCEPT
                            !.pc = "done",
                            !.labels_json =
                                <<get_wf_labels(maker.batch_name, maker.batch_name,
                                                WorkflowName, id)>>]
    /\ UNCHANGED <<jobs, driver_vars, aborter, aggregator>>

\* the health check or the query raises
MakeBatchInputsCallFails ==
    /\ maker.pc \in {"health", "unique"}
    /\ maker' = [maker EXCEPT
                     !.pc = "raised",
                     !.calls = Append(@, [op |-> IF maker.pc = "unique" THEN "query" ELSE "health",
                                          ok |-> FALSE])]
    /\ UNCHANGED <<jobs, driver_vars, aborter, aggregator>>

\* ------------------------------------------------- all programs on one server
NextTools ==
    \/ Next
    \/ AbortBatchHealth
    \/ AbortBatchQuery
    \/ AbortBatchStatus
    \/ AbortBatchAbort
    \/ AbortBatchAbortFails
    \/ AbortBatchCallFails
    \/ GetBatchStatusHealth
    \/ GetBatchStatusQuery
    \/ GetBatchStatusSummary
    \/ GetBatchStatusTabulate
    \/ GetBatchStatusCallFails
    \/ MakeBatchInputsParse
    \/ MakeBatchInputsHealth
    \/ MakeBatchInputsUnique
    \/ MakeBatchInputsLabels
    \/ MakeBatchInputsCallFails

\* one run of each program for the same batch, in any interleaving, against
\* a server that already holds up to MaxToolPrior jobs
InitTools ==
    /\ jobs \in {js \in PriorJobs : Len(js) <= MaxToolPrior}
    /\ \E file \in {f \in Batches(MaxToolItems) : f[1][CROMWELL_SAMPLE_LABEL] = <<"S", "1">>} :
          batch_labels = [d \in Drivers |-> IF d = 1 THEN file ELSE <<>>]
    /\ \E action \in BatchConflictActions :
          batch_conflict_action = [d \in Drivers |-> IF d = 1 THEN action ELSE "rerun-failed"]
    /\ InitDriver({1})
    /\ aborter = AborterInit(BatchName)
    /\ \E show_excluded \in BOOLEAN :
          aggregator = AggregatorInit(BatchName, show_excluded)
    /\ maker = MakerInit(BatchName, <<<<"S", "1">>>>, FALSE, "scatter")

SpecTools == InitTools /\ [][NextTools]_vars

\* -------------------------------------------------- make_batch_inputs on its own
\* the names of up to MaxNameLen characters over a letter and the underscore
Names == UNION {[1..n -> {"a", "_"}] : n \in 1..MaxNameLen}

\* the names the label pattern allows
ValidNames == {name \in Names : is_valid_label(name)}

\* the sample sheets of up to MaxSheet samples with names the pattern allows
SampleSheets == UNION {[1..n -> ValidNames] : n \in 0..MaxSheet}

\* the servers that hold no job, or one job that was submitted with a label
\* set make_batch_inputs wrote for an earlier batch
EarlierBatchJobs ==
    {<<>>} \cup {<<Job(get_wf_labels(sample_name, batch_name, WorkflowName, UniqueId),
                       CROMWELL_SUCCESS_STATUS, FALSE)>> :
                    sample_name \in ValidNames, batch_name \in ValidNames}

NextMake ==
    \/ MakeBatchInputsParse
    \/ MakeBatchInputsHealth
    \/ MakeBatchInputsUnique
    \/ MakeBatchInputsLabels
    \/ MakeBatchInputsCallFails

\* one run of make_batch_inputs with any batch name, sample sheet and options
InitMake ==
    /\ jobs \in EarlierBatchJobs
    /\ batch_labels = [d \in Drivers |-> <<>>]
    /\ batch_conflict_action = [d \in Drivers |-> "rerun-failed"]
    /\ InitDriver({})
    /\ aborter = [AborterInit(<<>>) EXCEPT !.pc = "off"]
    /\ aggregator = [AggregatorInit(<<>>, FALSE) EXCEPT !.pc = "off"]
    /\ \E batch_name \in Names, sample_names \in SampleSheets,
          force_overwrite \in BOOLEAN, wf_type \in {"scatter", "gather"} :
          maker = MakerInit(batch_name, sample_names, force_overwrite, wf_type)

SpecMake == InitMake /\ [][NextMake]_vars

\* ------------------------------------------------------------------ claims
\* positions of the calls of driver d for item n with operation op
ItemCalls(d, n, op) ==
    {p \in DOMAIN calls[d] : calls[d][p].item = n /\ calls[d][p].op = op}

Items(d) == 0..(Len(batch_labels[d]) - 1)

\* the policy table of the conflict resolver, as (can_overwrite, must_abort)
PolicyTable(action, status) ==
    CASE status = "Succeeded" -> <<action = "rerun-all", FALSE>>
      [] status \in {"Failed", "Aborted"} -> <<TRUE, FALSE>>
      [] status \in {"Running", "Submitted"} ->
            IF action = "rerun-failed" THEN <<FALSE, FALSE>> ELSE <<TRUE, TRUE>>

\* C1: for every policy and every prior-job status in {Succeeded, Failed,
\* Aborted, Running, Submitted}, the pair resolve_batch_conflict returned for
\* the status it read is the pair of the policy table.
C1_ResolverFollowsPolicyTable ==
    \A d \in Drivers : \A p \in DOMAIN calls[d] :
        LET e == calls[d][p] IN
        (e.op = "status" /\ e.ok
           /\ e.status \in {"Succeeded", "Failed", "Aborted", "Running", "Submitted"})
        => <<e.can_overwrite, e.must_abort>> = PolicyTable(batch_conflict_action[d], e.status)

\* C1 witness: a Running prior job was resolved under rerun-unless-success
\* and a Succeeded one under rerun-failed.
C1_Witness ==
    \E d \in Drivers : \E p, q \in DOMAIN calls[d] :
        /\ batch_conflict_action[d] \in {"rerun-unless-success", "rerun-failed"}
        /\ calls[d][p].op = "status" /\ calls[d][p].ok
        /\ calls[d][q].op = "status" /\ calls[d][q].ok
        /\ calls[d][p].status = "Running"
        /\ calls[d][q].status = "Succeeded"
        /\ ~calls[d][q].can_overwrite

\* C9 (as claimed): a prior job read as Aborting is handled as non-terminal:
\* blocked under rerun-failed, overwritten with must_abort under the others.
C9_AbortingHandledAsNonTerminal ==
    \A d \in Drivers : \A p \in DOMAIN calls[d] :
        LET e == calls[d][p] IN
        (e.op = "status" /\ e.ok /\ e.status = "Aborting")
        => <<e.can_overwrite, e.must_abort>> =
              IF batch_conflict_action[d] = "rerun-failed"
              THEN <<FALSE, FALSE>> ELSE <<TRUE, TRUE>>

\* C9 (amended): the resolver treats Succeeded, Failed, Aborted and Aborting
\* as not alive: a prior job read as Aborting may be overwritten under every
\* policy and is never aborted again; only Running and Submitted are alive.
C9_AbortingHandledAsDead ==
    \A d \in Drivers : \A p \in DOMAIN calls[d] :
        LET e == calls[d][p] IN
        (e.op = "status" /\ e.ok)
        => /\ e.status = "Aborting" => (e.can_overwrite /\ ~e.must_abort)
           /\ e.must_abort => e.status \in {"Running", "Submitted"}

\* C9 witness: an Aborting prior job was resolved under rerun-failed and the
\* item was then submitted.
C9_Witness ==
    \E d \in Drivers : \E p, q \in DOMAIN calls[d] :
        /\ batch_conflict_action[d] = "rerun-failed"
        /\ calls[d][p].op = "status" /\ calls[d][p].ok
        /\ calls[d][p].status = "Aborting"
        /\ calls[d][q].op = "submit" /\ calls[d][q].ok
        /\ calls[d][q].item = calls[d][p].item

\* the item n of driver d has been recorded in the job report
Recorded(d, n) == n < i[d]

\* the resolutions (status reads that returned) of item n of driver d
Resolutions(d, n) == {p \in ItemCalls(d, n, "status") : calls[d][p].ok}

\* C2: an item is submitted if and only if every prior conflicting job found
\* for its batch_sample_label resolved to can_overwrite = true; one conflict
\* with can_overwrite = false prevents it, wherever it is in the list.
C2_SubmitIffAllConflictsOverwritable ==
    \A d \in Drivers : \A n \in Items(d) :
        /\ ItemCalls(d, n, "submit") # {}
           => /\ \A p \in Resolutions(d, n) : calls[d][p].can_overwrite
              /\ \A q \in ItemCalls(d, n, "query") :
                    {calls[d][p].wf : p \in Resolutions(d, n)} = Range(calls[d][q].found)
        /\ Recorded(d, n)
           => /\ \A q \in ItemCalls(d, n, "query") :
                    {calls[d][p].wf : p \in Resolutions(d, n)} = Range(calls[d][q].found)
              /\ (\E p \in ItemCalls(d, n, "submit") : calls[d][p].ok)
                    <=> (\A p \in Resolutions(d, n) : calls[d][p].can_overwrite)

\* C2 witness: an item with two prior conflicts, the first overwritable and
\* the second not, was recorded without a submission.
C2_Witness ==
    \E d \in Drivers : \E n \in Items(d) : \E p, q \in Resolutions(d, n) :
        /\ Recorded(d, n)
        /\ p < q
        /\ calls[d][p].can_overwrite
        /\ ~calls[d][q].can_overwrite
        /\ ItemCalls(d, n, "submit") = {}

\* the conflict loop of item n of driver d has run to its end
ConflictsResolved(d, n) ==
    \/ Recorded(d, n)
    \/ n = i[d] /\ pc[d] = "submit"
    \/ n = i[d] /\ ItemCalls(d, n, "submit") # {}

\* C3: every prior job that resolved to can_overwrite = true is patched to
\* exclude, and aborted when must_abort = true, also when the item itself is
\* not submitted (blocked by another conflict, or the submit call fails);
\* a job this run patched to exclude stays excluded.
C3_OverwritableConflictsRetired ==
    \A d \in Drivers :
        /\ \A n \in Items(d) : ConflictsResolved(d, n) =>
              \A p \in Resolutions(d, n) : calls[d][p].can_overwrite =>
                 /\ \E q \in ItemCalls(d, n, "patch") :
                       q > p /\ calls[d][q].ok /\ calls[d][q].wf = calls[d][p].wf
                 /\ calls[d][p].must_abort =>
                       \E q \in ItemCalls(d, n, "abort") :
                          q > p /\ calls[d][q].ok /\ calls[d][q].wf = calls[d][p].wf
        /\ \A q \in DOMAIN calls[d] :
              (calls[d][q].op = "patch" /\ calls[d][q].ok)
                 => jobs[calls[d][q].wf].bstat = CROMWELL_BATCH_STATUS_EXCLUDE_FLAG

\* C3 witness: one item was blocked by a prior job after another prior job
\* was excluded for it, and the submit call of a later item failed after a
\* prior job was excluded for that item; both excluded jobs are still excluded.
C3_Witness ==
    \E d \in Drivers : \E n, m \in Items(d) :
        /\ pc[d] = "raised"
        /\ Col(job_report[d][n + 1], "wf_id") = StrCell("Not submitted")
        /\ \E p, q \in Resolutions(d, n) :
              /\ calls[d][p].can_overwrite
              /\ ~calls[d][q].can_overwrite
              /\ jobs[calls[d][p].wf].bstat = CROMWELL_BATCH_STATUS_EXCLUDE_FLAG
        /\ \E q \in ItemCalls(d, m, "submit") : ~calls[d][q].ok
        /\ \E p \in Resolutions(d, m) :
              /\ calls[d][p].can_overwrite
              /\ jobs[calls[d][p].wf].bstat = CROMWELL_BATCH_STATUS_EXCLUDE_FLAG

\* the calls of the batch loop of driver d that raised
FailedCalls(d) == {p \in DOMAIN calls[d] : ~calls[d][p].ok /\ calls[d][p].op # "health"}

\* C4: when a remote call raises while item i is processed, the report built
\* so far is written with row i, and only row i, marked "FAILED WORKFLOW",
\* and the exception reaches the caller only after the report is written; it
\* is never swallowed; a run without exception writes no Failed column.
C4_ReportThenReraise ==
    \A d \in Drivers :
        /\ pc[d] = "raised"
           => /\ report_file[d].written
              /\ "Failed" \in DOMAIN report_file[d]
              /\ \E p \in FailedCalls(d) :
                    \A n \in Items(d) :
                       report_file[d].Failed[n + 1] =
                          IF n = calls[d][p].item THEN "FAILED WORKFLOW" ELSE ""
              /\ \A n \in Items(d) :
                    report_file[d].rows[n + 1].wf_id = Col(job_report[d][n + 1], "wf_id")
        /\ FailedCalls(d) # {} => pc[d] \in {"except", "raised"}
        /\ pc[d] = "except" => ~report_file[d].written
        /\ pc[d] = "done"
           => /\ report_file[d].written
              /\ "Failed" \notin DOMAIN report_file[d]
              /\ FailedCalls(d) = {}
        /\ report_file[d].written => pc[d] \in {"raised", "done"}

\* C4 witness: the second item of a batch failed after the first one was
\* submitted, and the exception has reached the caller.
C4_Witness ==
    \E d \in Drivers :
        /\ pc[d] = "raised"
        /\ i[d] = 1
        /\ report_file[d].Failed = <<"", "FAILED WORKFLOW">>
        /\ report_file[d].rows[1].wf_id.t = "wf"

\* C5: after a remote call raised, the loop stops at once: the failed call is
\* the last remote call of the run, for the failed item and for every later
\* item.
C5_NoCallAfterFailure ==
    \A d \in Drivers : \A p \in FailedCalls(d) :
        /\ p = Len(calls[d])
        /\ \A q \in DOMAIN calls[d] : calls[d][q].item <= calls[d][p].item
        /\ i[d] = calls[d][p].item

\* C5 witness: the run ended on a failure at the first of two items, whose
\* conflict that was still to be aborted and the second item were never
\* reached.
C5_Witness ==
    \E d \in Drivers :
        /\ pc[d] = "raised"
        /\ Len(batch_labels[d]) = 2
        /\ i[d] = 0
        /\ calls[d][Len(calls[d])].op = "patch"
        /\ abort_conflict_wf[d]

\* C6 (as claimed): in the report written after a failure at item i, only the
\* items 0..i have rows.
C6_UnreachedRowsOmitted ==
    \A d \in Drivers :
        (pc[d] = "raised") => Len(report_file[d].rows) = i[d] + 1

\* a report cell that holds the outcome of a processed item
IsOutcome(cell) == cell.t = "wf" \/ cell = StrCell("Not submitted")

\* C6 (amended): the report written after a failure at item i of N has one
\* row for every item of the batch, 0..N-1; the rows of the items before i
\* hold their recorded outcome, the rows of item i and of the items never
\* reached hold their labels and no outcome.
C6_UnreachedRowsKeptWithoutOutcome ==
    \A d \in Drivers :
        (pc[d] = "raised") =>
            /\ Len(report_file[d].rows) = Len(batch_labels[d])
            /\ \A n \in Items(d) :
                  /\ report_file[d].rows[n + 1].bsl =
                        batch_labels[d][n + 1][CROMWELL_BATCH_SAMPLE_LABEL]
                  /\ IsOutcome(report_file[d].rows[n + 1].wf_id) <=> n < i[d]

\* C6 witness: a run of two items failed at the first one and wrote a report.
C6_Witness ==
    \E d \in Drivers :
        /\ pc[d] = "raised"
        /\ i[d] = 0
        /\ Len(report_file[d].rows) = 2

\* an item of driver d that a prior conflict blocked
Blocked(d, n) == \E p \in Resolutions(d, n) : ~calls[d][p].can_overwrite

\* the number of submit calls of driver d that returned
SubmitCount(d) == Cardinality({p \in DOMAIN calls[d] : calls[d][p].op = "submit" /\ calls[d][p].ok})

\* C7: an item blocked by conflict policy is recorded with the job id
\* "Not submitted" and a non-empty message; none of its calls raised, it is
\* not counted as submitted, and the driver goes on with the next item.
C7_BlockedItemIsReportedNotFailed ==
    \A d \in Drivers :
        /\ submitted_wfs[d] = SubmitCount(d)
        /\ \A n \in Items(d) : (Blocked(d, n) /\ Recorded(d, n)) =>
              /\ job_report[d][n + 1].wf_id = StrCell("Not submitted")
              /\ job_report[d][n + 1].Info.t = "str"
              /\ job_report[d][n + 1].Info.s # ""
              /\ ItemCalls(d, n, "submit") = {}
              /\ \A p \in FailedCalls(d) : calls[d][p].item # n
              /\ (i[d] = n + 1 /\ n + 1 < Len(batch_labels[d])
                    /\ calls[d][Len(calls[d])].item = n) => pc[d] = "query"
        /\ \A n \in Items(d) : (Blocked(d, n) /\ pc[d] = "done") =>
              \A m \in Items(d) : ItemCalls(d, m, "query") # {}

\* C7 witness: the first item was blocked and the second one was submitted.
C7_Witness ==
    \E d \in Drivers :
        /\ pc[d] = "done"
        /\ Len(batch_labels[d]) = 2
        /\ Blocked(d, 0)
        /\ job_report[d][1].wf_id = StrCell("Not submitted")
        /\ job_report[d][2].wf_id.t = "wf"
        /\ submitted_wfs[d] = 1

\* C8 (as claimed): a failed abort of a prior job is not fatal: the run does
\* not end on it, the item is still decided and the other items processed.
C8_FailedAbortIsNotFatal ==
    \A d \in Drivers : \A p \in FailedCalls(d) :
        calls[d][p].op = "abort" => pc[d] \notin {"except", "raised"}

\* the submissions of driver d made after its conflict query found nothing
SubmitsAfterEmptyQuery(d) ==
    {p \in DOMAIN calls[d] :
        /\ calls[d][p].op = "submit" /\ calls[d][p].ok
        /\ \A q \in ItemCalls(d, calls[d][p].item, "query") : calls[d][q].found = <<>>}

\* some driver has patched job wf since it was submitted
PatchedSince(wf) ==
    \E d \in Drivers : \E q \in DOMAIN calls[d] :
        calls[d][q].op = "patch" /\ calls[d][q].ok /\ calls[d][q].wf = wf

\* C10: two concurrent driver runs are not protected from each other: when
\* both found no conflict for the same batch_sample_label and both submitted,
\* the server holds two jobs with that label, both with batch status include
\* (until a later item of one of the runs retires them).
C10_ConcurrentRunsBothSubmit ==
    \A p1 \in SubmitsAfterEmptyQuery(1) : \A p2 \in SubmitsAfterEmptyQuery(2) :
        LET w1 == calls[1][p1].wf
            w2 == calls[2][p2].wf
            l1 == batch_labels[1][calls[1][p1].item + 1][CROMWELL_BATCH_SAMPLE_LABEL]
            l2 == batch_labels[2][calls[2][p2].item + 1][CROMWELL_BATCH_SAMPLE_LABEL]
        IN  (l1 = l2 /\ ~PatchedSince(w1) /\ ~PatchedSince(w2)) =>
               /\ w1 # w2
               /\ jobs[w1].bsl = l1 /\ jobs[w2].bsl = l1
               /\ jobs[w1].bstat = CROMWELL_BATCH_STATUS_INCLUDE_FLAG
               /\ jobs[w2].bstat = CROMWELL_BATCH_STATUS_INCLUDE_FLAG

\* C10 witness: both runs have ended without error, each has submitted a job
\* for the same label after an empty conflict query, and both jobs are
\* included.
C10_Witness ==
    /\ pc[1] = "done" /\ pc[2] = "done"
    /\ \E p1 \in SubmitsAfterEmptyQuery(1) : \E p2 \in SubmitsAfterEmptyQuery(2) :
          LET w1 == calls[1][p1].wf
              w2 == calls[2][p2].wf
          IN  /\ w1 # w2
              /\ jobs[w1].bsl = jobs[w2].bsl
              /\ jobs[w1].bstat = CROMWELL_BATCH_STATUS_INCLUDE_FLAG
              /\ jobs[w2].bstat = CROMWELL_BATCH_STATUS_INCLUDE_FLAG

\* the jobs that were on the server before any run submitted one
PriorIds ==
    {w \in DOMAIN jobs :
        \A d \in Drivers : \A p \in DOMAIN calls[d] :
           ~(calls[d][p].op = "submit" /\ calls[d][p].ok /\ calls[d][p].wf = w)}

\* the batch-sample labels of the batch of driver d
BatchKeys(d) ==
    {batch_labels[d][n][CROMWELL_BATCH_SAMPLE_LABEL] : n \in DOMAIN batch_labels[d]}

\* a run of driver d that ended without a failed call, on a server that held
\* no job with one of the batch's batch-sample labels when it started
CleanRun(d) ==
    /\ pc[d] = "done"
    /\ FailedCalls(d) = {}
    /\ \A w \in PriorIds : jobs[w].bsl \notin BatchKeys(d)

\* every row holds a job id, no row lists a superseded job, and no patch or
\* abort was issued
AllSubmittedNothingRetired(d) ==
    /\ \A n \in Items(d) :
          /\ job_report[d][n + 1].wf_id.t = "wf"
          /\ job_report[d][n + 1].SupercededWFs = ListCell(<<>>)
    /\ submitted_wfs[d] = Len(batch_labels[d])
    /\ \A p \in DOMAIN calls[d] : calls[d][p].op \notin {"patch", "abort"}

\* C11 (as claimed): a run over N items that starts with no job on the server
\* carrying one of the batch's batch_sample_labels and in which no remote call
\* fails ends with N submitted rows, no superseded job and no patch or abort.
C11_CleanRunSubmitsAll ==
    \A d \in Drivers : CleanRun(d) => AllSubmittedNothingRetired(d)

\* C11 (amended): the same, for a batch whose batch_sample_labels are
\* pairwise distinct; an item that repeats the label of an earlier item finds
\* the job that item submitted as a conflict.
C11_CleanRunOfDistinctLabelsSubmitsAll ==
    \A d \in Drivers :
        (CleanRun(d) /\ Cardinality(BatchKeys(d)) = Len(batch_labels[d]))
           => AllSubmittedNothingRetired(d)

\* C11 witness: a clean run over two items with different labels has ended
\* with two submissions.
C11_Witness ==
    \E d \in Drivers :
        /\ CleanRun(d)
        /\ Cardinality(BatchKeys(d)) = 2
        /\ submitted_wfs[d] = 2
        /\ Len(jobs) = 2

\* the required labels a label set lacks
MissingLabels(labels) ==
    {REQUIRED_WF_LABELS[n] : n \in DOMAIN REQUIRED_WF_LABELS} \ DOMAIN labels

\* the label file of driver d holds a label set that lacks a required label
HasInvalidLabelSet(d) ==
    \E n \in DOMAIN batch_labels[d] : MissingLabels(batch_labels[d][n]) # {}

\* C12: when a label set of the label file, at any index, lacks a required
\* label, the run fails before any remote call: no health check, query,
\* status read, patch, abort or submit is issued, and the server (empty when
\* the run starts) holds no job afterwards.
C12_InvalidLabelSetFailsBeforeAnyCall ==
    \A d \in Drivers :
        HasInvalidLabelSet(d) =>
            /\ calls[d] = <<>>
            /\ jobs = <<>>
            /\ pc[d] \in {"validate", "invalid"}
            /\ ~report_file[d].written

\* C12 witness: a run has failed on a label file of two label sets of which
\* only the second lacks a label.
C12_Witness ==
    \E d \in Drivers :
        /\ pc[d] = "invalid"
        /\ Len(batch_labels[d]) = 2
        /\ MissingLabels(batch_labels[d][1]) = {}
        /\ MissingLabels(batch_labels[d][2]) # {}

\* the first label set of the label file of driver d that lacks a label
FirstInvalid(d) ==
    batch_labels[d][CHOOSE n \in DOMAIN batch_labels[d] :
                       /\ MissingLabels(batch_labels[d][n]) # {}
                       /\ \A m \in 1..(n - 1) : MissingLabels(batch_labels[d][m]) = {}]

\* the error validation raised in the run of driver d
Raised(d) == CHOOSE e \in err_msg[d] : TRUE

\* C13 (as claimed): validation of a label set that lacks several of the tags
\* batch label, sample label, batch-sample label and batch status fails with
\* one error that names every absent tag.
C13_ErrorNamesEveryAbsentTag ==
    \A d \in Drivers :
        pc[d] = "invalid" =>
            LET absent == MissingLabels(FirstInvalid(d)) \cap
                             {CROMWELL_BATCH_LABEL, CROMWELL_SAMPLE_LABEL,
                              CROMWELL_BATCH_SAMPLE_LABEL, CROMWELL_BATCH_STATUS_FIELD}
            IN  Cardinality(absent) >= 2 =>
                   /\ err_msg[d] # None
                   /\ \A label \in absent : label = Raised(d).label

\* C14: validate_wf_labels returns without error exactly when all five
\* required labels are present (so validation of a label file passes exactly
\* when every label set is complete), and for a label set that lacks exactly
\* one required label the error raised names that label and no other.
C14_ValidatesExactlyCompleteLabelSets ==
    \A d \in Drivers :
        /\ pc[d] \notin {"validate", "off"} =>
              /\ (err_msg[d] = None) <=> ~HasInvalidLabelSet(d)
              /\ (pc[d] = "invalid") <=> HasInvalidLabelSet(d)
        /\ (pc[d] = "invalid" /\ Cardinality(MissingLabels(FirstInvalid(d))) = 1) =>
              /\ err_msg[d] # None
              /\ Raised(d).exc = "IOError"
              /\ MissingLabels(FirstInvalid(d)) = {Raised(d).label}

\* C14 witness: validation has failed on a label set that lacks only the
\* sample label, after a complete label set was accepted.
C14_Witness ==
    \E d \in Drivers :
        /\ pc[d] = "invalid"
        /\ Len(batch_labels[d]) = 2
        /\ MissingLabels(batch_labels[d][1]) = {}
        /\ MissingLabels(batch_labels[d][2]) = {CROMWELL_SAMPLE_LABEL}
        /\ Raised(d).label = CROMWELL_SAMPLE_LABEL

\* the label file of driver d holds a batch label or a sample label whose
\* value does not match the label pattern
HasBadName(d) ==
    \E n \in DOMAIN batch_labels[d] :
       \E label \in {CROMWELL_BATCH_LABEL, CROMWELL_SAMPLE_LABEL} \cap DOMAIN batch_labels[d][n] :
          ~is_valid_label(batch_labels[d][n][label])

\* C15 (as claimed): a batch name or sample name that does not match the
\* label pattern is rejected before any remote call; for the driver: a label
\* file with such a batch label or sample label value leads to no remote call.
C15_BadNameRejectedBeforeAnyCall ==
    \A d \in Drivers :
        HasBadName(d) => (calls[d] = <<>> /\ pc[d] \in {"validate", "invalid"})

\* driver d has made successful call number p, of operation op on job w
Did(d, p, op, w) ==
    /\ calls[d][p].op = op
    /\ calls[d][p].ok
    /\ calls[d][p].wf = w

\* the top-level jobs with the label of item n that were on the server and
\* included when driver d made its call number q, by the history of the run:
\* a job was there if it is a prior job or was submitted before q; it was
\* included if it was included at first and not patched before q
ConflictsAt(d, n, q) ==
    {w \in DOMAIN jobs :
        /\ ~jobs[w].child
        /\ jobs[w].bsl = batch_labels[d][n + 1][CROMWELL_BATCH_SAMPLE_LABEL]
        /\ w \in PriorIds \/ \E p \in 1..(q - 1) : Did(d, p, "submit", w)
        /\ \/ jobs[w].bstat = CROMWELL_BATCH_STATUS_INCLUDE_FLAG
           \/ \E p \in DOMAIN calls[d] : Did(d, p, "patch", w)
        /\ ~\E p \in 1..(q - 1) : Did(d, p, "patch", w)}

\* every conflict set the run was given is the one of the server at the time
\* of the query
ConflictSetsAreLive ==
    \A d \in Drivers : \A q \in DOMAIN calls[d] :
        (calls[d][q].op = "query" /\ calls[d][q].ok)
           => Range(calls[d][q].found) = ConflictsAt(d, calls[d][q].item, q)

\* a status read that returns in this step returns the status the job has now
StatusReadIsLive ==
    \A d \in Drivers :
        LET e == calls'[d][Len(calls'[d])] IN
        (Len(calls'[d]) = Len(calls[d]) + 1 /\ e.op = "status" /\ e.ok)
           => /\ e.status = jobs[e.wf].status
              /\ batch_conflict_status'[d] = jobs[e.wf].status

\* C16: the conflict set of item i is read from the server while item i is
\* processed and the status of each prior job when it is resolved, never from
\* a cache: the set holds the jobs earlier items of the run submitted with
\* the same batch_sample_label and not the jobs earlier items excluded.
C16_ConflictsReadFresh ==
    []ConflictSetsAreLive /\ [][StatusReadIsLive]_vars

\* C16 witness: the second item of a run found the job the first item had
\* submitted, and not the prior job the first item had excluded.
C16_Witness ==
    \E d \in Drivers : \E q \in DOMAIN calls[d] : \E w, x \in DOMAIN jobs :
        /\ calls[d][q].op = "query" /\ calls[d][q].ok /\ calls[d][q].item = 1
        /\ calls[d][q].found = <<w>>
        /\ \E p \in 1..(q - 1) : Did(d, p, "submit", w)
        /\ \E p \in 1..(q - 1) : Did(d, p, "patch", x)
        /\ jobs[x].bsl = jobs[w].bsl

\* the step of the item state machine a remote call belongs to: the conflict
\* check is the query and the resolution of each conflict, then the submission
Phase(op) ==
    CASE op = "health" -> 0
      [] op = "query" -> 1
      [] op \in {"status", "patch", "abort"} -> 2
      [] op = "submit" -> 3

\* the outcome of item n of driver d is in the job report
RowRecorded(d, n) ==
    /\ n + 1 \in DOMAIN job_report[d]
    /\ Col(job_report[d][n + 1], "wf_id") # NaN

\* C17: every item goes through conflict check, submission or skip, and
\* recording in that order; the items are taken in the index order of the
\* label file; no call is made for item i+1 before item i is recorded.
C17_ItemsInOrderOneAtATime ==
    \A d \in Drivers :
        /\ \A p, q \in DOMAIN calls[d] : p < q =>
              /\ calls[d][p].item <= calls[d][q].item
              /\ calls[d][p].item = calls[d][q].item
                    => Phase(calls[d][p].op) <= Phase(calls[d][q].op)
              /\ calls[d][p].item = calls[d][q].item
                    => calls[d][q].op \notin {"query", "health"}
        /\ \A p \in DOMAIN calls[d] :
              /\ calls[d][p].item <= i[d]
              /\ calls[d][p].op = "query" => p > 1 /\ calls[d][p - 1].item = calls[d][p].item - 1
              /\ \A n \in 0..(calls[d][p].item - 1) : RowRecorded(d, n)
              /\ (calls[d][p].op = "submit" /\ calls[d][p].ok)
                    => /\ Col(job_report[d][calls[d][p].item + 1], "wf_id") = WfCell(calls[d][p].wf)
                       /\ p = Len(calls[d]) \/ calls[d][p + 1].item = calls[d][p].item + 1
        /\ \A n \in Items(d) :
              /\ RowRecorded(d, n) <=> (n < i[d] /\ pc[d] \notin {"validate", "health", "invalid", "down"})
              /\ RowRecorded(d, n) =>
                    /\ ItemCalls(d, n, "query") # {}
                    /\ \/ /\ job_report[d][n + 1].wf_id.t = "wf"
                          /\ \E p \in ItemCalls(d, n, "submit") : calls[d][p].ok
                       \/ /\ job_report[d][n + 1].wf_id = StrCell("Not submitted")
                          /\ ItemCalls(d, n, "submit") = {}

\* C17 witness: a run of two items has ended; the first item was submitted
\* after its conflict was patched and aborted, the second was skipped after
\* its conflict check.
C17_Witness ==
    \E d \in Drivers :
        /\ pc[d] = "done"
        /\ Len(batch_labels[d]) = 2
        /\ ItemCalls(d, 0, "abort") # {}
        /\ job_report[d][1].wf_id.t = "wf"
        /\ ItemCalls(d, 1, "status") # {}
        /\ job_report[d][2].wf_id = StrCell("Not submitted")

\* ------------------------------------------------------------------- C18
\* the labels of a job that identify its unit of work
IdentityLabels(job) == <<job.batch, job.sample, job.bsl, job.unique>>

\* a step keeps every job the server holds and its identity labels
KeepsIdentityLabels ==
    \A wf \in DOMAIN jobs :
       /\ wf \in DOMAIN jobs'
       /\ IdentityLabels(jobs'[wf]) = IdentityLabels(jobs[wf])

\* C18: whatever the Driver, abort_batch and get_batch_status do, in any
\* interleaving, the batch label, the sample label, the batch-sample label
\* and the unique label of every job the server already holds stay as they
\* are: the batch status label is the only label that is ever patched.
C18_OnlyBatchStatusIsPatched == [][KeepsIdentityLabels]_vars

\* a job that was on the server before the runs has been excluded by the
\* Driver and aborted by abort_batch, and get_batch_status has read it
C18_Witness ==
    \E wf \in DOMAIN jobs :
       /\ jobs[wf].bstat = CROMWELL_BATCH_STATUS_EXCLUDE_FLAG
       /\ \E p \in DOMAIN calls[1] :
             /\ calls[1][p].op = "patch" /\ calls[1][p].ok /\ calls[1][p].wf = wf
       /\ \E p \in DOMAIN aborter.calls :
             /\ aborter.calls[p].op = "abort" /\ aborter.calls[p].ok
             /\ aborter.calls[p].wf = wf
       /\ \E p \in DOMAIN aggregator.calls :
             /\ aggregator.calls[p].op = "metadata" /\ aggregator.calls[p].ok
             /\ aggregator.calls[p].wf = wf

\* ------------------------------------------------------------------- C19
\* the ids of the child jobs on the server
Children == {wf \in DOMAIN jobs : jobs[wf].child}

\* the job ids the Driver d was given by a query or sent in a status read,
\* a patch or an abort
DriverTouched(d) ==
    UNION {IF calls[d][p].op = "query" /\ calls[d][p].ok THEN Range(calls[d][p].found)
           ELSE IF calls[d][p].op \in {"status", "patch", "abort"} /\ calls[d][p].ok
                THEN {calls[d][p].wf}
           ELSE {} : p \in DOMAIN calls[d]}

\* the job ids abort_batch was given by its query or sent in a status read
\* or an abort
AborterTouched ==
    Range(aborter.batch_wfs)
    \cup UNION {IF aborter.calls[p].op \in {"status", "abort"} /\ aborter.calls[p].ok
                THEN {aborter.calls[p].wf} ELSE {} : p \in DOMAIN aborter.calls}

\* the job ids get_batch_status was given by its query or lists in its table
AggregatorTouched ==
    Range(aggregator.batch_wfs)
    \cup {aggregator.wf_summaries[n].wf_id : n \in DOMAIN aggregator.wf_summaries}
    \cup {aggregator.report_df[n].wf_id : n \in DOMAIN aggregator.report_df}

\* the job ids the uniqueness check of make_batch_inputs counted
MakerCounted ==
    UNION {IF maker.calls[p].op = "query" /\ maker.calls[p].ok
           THEN maker.calls[p].found ELSE {} : p \in DOMAIN maker.calls}

\* no program was ever handed a child job
NoChildTouched ==
    /\ \A d \in Drivers : DriverTouched(d) \cap Children = {}
    /\ AborterTouched \cap Children = {}
    /\ AggregatorTouched \cap Children = {}
    /\ MakerCounted \cap Children = {}

\* the top-level jobs that carry the batch label, of these the included ones
TopLevelOfBatch(batch_name, include_only) ==
    {wf \in DOMAIN jobs :
        /\ ~jobs[wf].child
        /\ jobs[wf].batch = batch_name
        /\ include_only => jobs[wf].bstat = CROMWELL_BATCH_STATUS_INCLUDE_FLAG}

\* a step in which a program receives a query result receives exactly the
\* matching top-level jobs
QueryIsExact ==
    /\ \A d \in Drivers :
          pc[d] = "query" /\ pc'[d] \in {"status", "submit"}
             => Range(batch_conflict_wfs'[d])
                  = {wf \in TopLevelOfBatch(wf_labels(d)[CROMWELL_BATCH_LABEL], TRUE) :
                        jobs[wf].bsl = wf_labels(d)[CROMWELL_BATCH_SAMPLE_LABEL]}
    /\ aborter.pc = "query" /\ aborter'.pc \in {"status", "no_batch"}
          => Range(aborter'.batch_wfs) = TopLevelOfBatch(aborter.batch_name, FALSE)
    /\ aggregator.pc = "query" /\ aggregator'.pc \in {"summary", "no_batch"}
          => Range(aggregator'.batch_wfs)
               = TopLevelOfBatch(aggregator.batch_name, ~aggregator.show_excluded)
    /\ maker.pc = "unique" /\ maker'.pc \in {"labels", "not_unique"}
          => (maker'.pc = "not_unique"
                <=> /\ TopLevelOfBatch(maker.batch_name, FALSE) # {}
                    /\ ~maker.force_overwrite)

\* C19: every query returns exactly the matching jobs without a parent, so
\* a child job is never a batch conflict of the Driver (never read, patched
\* or aborted by it), never counted by the batch-name uniqueness check,
\* never listed by get_batch_status and never aborted by abort_batch.
C19_ChildJobsAreInvisible == []NoChildTouched /\ [][QueryIsExact]_vars

\* a child job carries the labels of the Driver's item; the uniqueness check
\* found the batch name unused, the Driver found no conflict and submitted,
\* abort_batch and get_batch_status went through the batch without the child
C19_Witness ==
    /\ \E wf \in Children : jobs[wf].bsl = batch_labels[1][1][CROMWELL_BATCH_SAMPLE_LABEL]
    /\ \E p \in DOMAIN maker.calls :
          maker.calls[p].op = "query" /\ maker.calls[p].ok /\ maker.calls[p].unique
    /\ \E p \in DOMAIN calls[1] :
          calls[1][p].op = "query" /\ calls[1][p].ok /\ calls[1][p].found = <<>>
    /\ \E p \in DOMAIN calls[1] : calls[1][p].op = "submit" /\ calls[1][p].ok
    /\ aborter.pc = "done"
    /\ aggregator.wf_summaries # <<>>

\* ------------------------------------------------------------------- C20
\* batch label, sample label and batch-sample label of every label set
\* get_wf_labels has produced: those make_batch_inputs has just written and
\* those of the jobs of earlier batches
ProducedLabels ==
    {<<maker.labels_json[n][CROMWELL_BATCH_LABEL],
       maker.labels_json[n][CROMWELL_SAMPLE_LABEL],
       maker.labels_json[n][CROMWELL_BATCH_SAMPLE_LABEL]>> : n \in DOMAIN maker.labels_json}
    \cup {<<jobs[wf].batch, jobs[wf].sample, jobs[wf].bsl>> : wf \in DOMAIN jobs}

\* C20: two label sets produced by get_wf_labels for batch and sample names
\* the label pattern allows have the same batch-sample label exactly if they
\* have the same batch label and the same sample label.
C20_BatchSampleLabelIsInjective ==
    \A l1, l2 \in ProducedLabels :
       (is_valid_label(l1[1]) /\ is_valid_label(l1[2])
           /\ is_valid_label(l2[1]) /\ is_valid_label(l2[2]))
          => (l1[3] = l2[3] <=> (l1[1] = l2[1] /\ l1[2] = l2[2]))

\* ------------------------------------------------------------------- C21
\* get_batch_status has fetched the summary of every job its query returned,
\* of which there is at least one, and is past the tabulation
AllSummariesFetched ==
    /\ aggregator.batch_wfs # <<>>
    /\ Len(aggregator.wf_summaries) = Len(aggregator.batch_wfs)
    /\ aggregator.pc \notin {"off", "summary", "tabulate"}

\* C21: a run of get_batch_status whose query returned one or more jobs and
\* whose metadata reads all succeeded runs to completion: it does not stop
\* on an error and it writes the status report.
C21_AggregatorRunsToCompletion ==
    AllSummariesFetched
       => /\ aggregator.pc # "raised"
          /\ aggregator.report_file.written

\* ------------------------------------------------------------------- C22
\* the fields one or more of the fetched summaries hold
FetchedFields ==
    UNION {DOMAIN aggregator.wf_summaries[n] : n \in DOMAIN aggregator.wf_summaries}

\* the columns of the data frame are the fields of the column order that one
\* or more summaries hold
FrameColumnsAreDataDriven ==
    aggregator.pc = "raised" /\ aggregator.col_order # <<>>
       => \A x \in Range(STATUS_COL_ORDER) :
             x \in Range(aggregator.col_order) <=> x \in FetchedFields

\* C22: when get_batch_status has fetched its summaries, a field that some
\* or all of them lack does not make it fail, and the status report has a
\* column of the column order exactly if one or more summaries hold the field.
C22_ReportColumnsAreDataDriven ==
    AllSummariesFetched
       => /\ aggregator.pc # "raised"
          /\ \A x \in Range(STATUS_COL_ORDER) :
                x \in Range(aggregator.report_file.columns) <=> x \in FetchedFields

\* ------------------------------------------------------------------- C23
\* the rows of a table follow --show-excluded: without it every row is a job
\* whose summary said include, with it there is a row for every job the
\* query returned
RowsFollowShowExcluded(rows) ==
    IF aggregator.show_excluded
    THEN {rows[n].wf_id : n \in DOMAIN rows} = Range(aggregator.batch_wfs)
    ELSE \A n \in DOMAIN rows : rows[n].bstat = CROMWELL_BATCH_STATUS_INCLUDE_FLAG

\* the data frame follows --show-excluded
FrameRowsFollowShowExcluded ==
    aggregator.pc = "raised" /\ aggregator.col_order # <<>>
       => RowsFollowShowExcluded(aggregator.report_df)

\* a summary was fetched after a Driver had excluded the job, and the row is
\* not in the data frame
ExcludedAfterQueryIsDropped ==
    /\ ~aggregator.show_excluded
    /\ aggregator.pc = "raised" /\ aggregator.col_order # <<>>
    /\ \E n \in DOMAIN aggregator.wf_summaries :
          aggregator.wf_summaries[n].bstat = CROMWELL_BATCH_STATUS_EXCLUDE_FLAG
    /\ Len(aggregator.report_df) < Len(aggregator.wf_summaries)

\* C23: when get_batch_status has fetched its summaries, without
\* --show-excluded every row of the status report is a job whose summary said
\* include, and with --show-excluded the status report has a row for every
\* top-level job of the batch the query returned.
C23_ReportRowsFollowShowExcluded ==
    AllSummariesFetched => RowsFollowShowExcluded(aggregator.report_file.rows)

\* ------------------------------------------------------------------- C24
\* C24: in the report written after a failure at item i, the rows of the
\* items after i, which were never reached, hold the text
\* "SKIPPED AFTER FAILURE" in the workflow id, the superseded-workflows and
\* the info column.
C24_UnreachedRowsSaySkipped ==
    \A d \in Drivers :
        (pc[d] = "raised") =>
            \A n \in Items(d) :
               n > i[d] =>
                  /\ report_file[d].rows[n + 1].wf_id = StrCell("SKIPPED AFTER FAILURE")
                  /\ report_file[d].rows[n + 1].SupercededWFs = StrCell("SKIPPED AFTER FAILURE")
                  /\ report_file[d].rows[n + 1].Info = StrCell("SKIPPED AFTER FAILURE")

\* ------------------------------------------------------------------- C25
\* the top-level jobs of a batch-sample label that are included in the batch
Included(js, bsl) ==
    {wf \in DOMAIN js : /\ ~js[wf].child
                        /\ js[wf].bsl = bsl
                        /\ js[wf].bstat = CROMWELL_BATCH_STATUS_INCLUDE_FLAG}

\* every batch-sample label has at most one included top-level job
AtMostOneIncluded(js) ==
    \A wf \in DOMAIN js : Cardinality(Included(js, js[wf].bsl)) <= 1

\* C25: a step of a single Driver run, whatever the policy, the item list and
\* the call that fails, leads from a server on which every batch-sample label
\* has at most one included top-level job to a server of the same kind; so a
\* run that starts on such a server stays on such servers.
C25_OneIncludedJobPerLabel ==
    [][AtMostOneIncluded(jobs) => AtMostOneIncluded(jobs')]_vars

\* a run of two items with the same batch-sample label retired a prior job,
\* submitted for both items, and one job of the label is included
C25_Witness ==
    /\ pc[1] = "done"
    /\ Len(batch_labels[1]) = 2
    /\ batch_labels[1][1][CROMWELL_BATCH_SAMPLE_LABEL]
          = batch_labels[1][2][CROMWELL_BATCH_SAMPLE_LABEL]
    /\ submitted_wfs[1] = 2
    /\ \E p \in DOMAIN calls[1] :
          /\ calls[1][p].op = "patch" /\ calls[1][p].ok /\ calls[1][p].item = 0
    /\ Cardinality(Included(jobs, batch_labels[1][1][CROMWELL_BATCH_SAMPLE_LABEL])) = 1
    /\ AtMostOneIncluded(jobs)

\* ------------------------------------------------------------------- C26
\* the jobs the row of item n of driver d names as superseded
SupercededIn(d, n) ==
    LET cell == Col(job_report[d][n + 1], "SupercededWFs")
    IN  IF cell.t = "list" THEN Range(cell.l) ELSE {}

\* the jobs driver d patched to exclude while it processed item n
PatchedAt(d, n) == {calls[d][p].wf : p \in {q \in ItemCalls(d, n, "patch") : calls[d][q].ok}}

\* C26: the row of a recorded item names as superseded exactly the jobs the
\* Driver patched to exclude while it processed the item, and when the run
\* has ended every job it patched is named in the row of the item it was
\* patched for, also when that item was blocked or failed.
C26_SupercededListsExactlyThePatched ==
    \A d \in Drivers : \A n \in Items(d) :
        /\ RowRecorded(d, n) => SupercededIn(d, n) = PatchedAt(d, n)
        /\ pc[d] \in {"raised", "done"} => PatchedAt(d, n) \subseteq SupercededIn(d, n)

\* ------------------------------------------------------------------- C27
\* driver d patched job wf to exclude after it had read it as not yet started
\* or running
PatchedWhileLive(d, wf) ==
    \E q, p \in DOMAIN calls[d] :
       /\ q < p
       /\ calls[d][q].op = "status" /\ calls[d][q].ok /\ calls[d][q].wf = wf
       /\ calls[d][q].status \in {CROMWELL_SUBMITTED_STATUS, CROMWELL_RUNNING_STATUS}
       /\ Did(d, p, "patch", wf)

\* C27: when a Driver run has ended, by completing or by stopping on an
\* error, the engine has accepted an abort request for every job the run
\* patched to exclude while the job was live; no job is left excluded and
\* live without an abort.
C27_ExcludedLiveJobsAreAborted ==
    \A d \in Drivers :
        pc[d] \in {"raised", "done"} =>
            \A wf \in DOMAIN jobs :
                PatchedWhileLive(d, wf) => \E p \in DOMAIN calls[d] : Did(d, p, "abort", wf)

\* ------------------------------------------------------------------- C28
\* a step keeps every excluded job excluded
StaysExcluded ==
    \A wf \in DOMAIN jobs :
       jobs[wf].bstat = CROMWELL_BATCH_STATUS_EXCLUDE_FLAG
          => /\ wf \in DOMAIN jobs'
             /\ jobs'[wf].bstat = CROMWELL_BATCH_STATUS_EXCLUDE_FLAG

\* C28: no step of the Driver, of abort_batch or of get_batch_status turns
\* the batch status of an existing job from exclude to include; an excluded
\* job stays excluded, so the batch status of a job changes at most once,
\* from include to exclude.
C28_ExcludeIsFinal == [][StaysExcluded]_vars

\* the Driver excluded a job and ended its run; after the patch
\* get_batch_status read the job as excluded and abort_batch went through
\* the batch; the job is still excluded
C28_Witness ==
    \E wf \in DOMAIN jobs :
       /\ pc[1] \in {"done", "raised"}
       /\ \E p \in DOMAIN calls[1] : Did(1, p, "patch", wf)
       /\ \E n \in DOMAIN aggregator.wf_summaries :
             /\ aggregator.wf_summaries[n].wf_id = wf
             /\ aggregator.wf_summaries[n].bstat = CROMWELL_BATCH_STATUS_EXCLUDE_FLAG
       /\ aborter.pc = "done"
       /\ aggregator.pc = "raised"
       /\ jobs[wf].bstat = CROMWELL_BATCH_STATUS_EXCLUDE_FLAG

\* ------------------------------------------------------------------- C29
\* every patch and abort request of a Driver, accepted or not, is for a job
\* the conflict query of the same item returned: a top-level job with the
\* item's batch-sample label that was included at the time of the query
RequestsOnlyForConflicts ==
    \A d \in Drivers : \A p \in DOMAIN calls[d] :
        calls[d][p].op \in {"patch", "abort"}
           => \E q \in 1..(p - 1) :
                 /\ calls[d][q].op = "query" /\ calls[d][q].ok
                 /\ calls[d][q].item = calls[d][p].item
                 /\ calls[d][p].wf \in Range(calls[d][q].found)
                 /\ calls[d][p].wf \in ConflictsAt(d, calls[d][p].item, q)

\* a step changes the labels of a job only when it is the conflict the
\* Driver is at, with the batch-sample label of the Driver's item
LabelsChangeOnlyOnConflict ==
    \A wf \in DOMAIN jobs :
       <<jobs'[wf].bstat, IdentityLabels(jobs'[wf])>> # <<jobs[wf].bstat, IdentityLabels(jobs[wf])>>
          => \E d \in Drivers :
                /\ pc[d] = "patch"
                /\ wf = batch_conflict_wf(d)
                /\ jobs[wf].bsl = wf_labels(d)[CROMWELL_BATCH_SAMPLE_LABEL]
                /\ jobs[wf].bstat = CROMWELL_BATCH_STATUS_INCLUDE_FLAG
                /\ ~jobs[wf].child

\* C29: while it processes an item, the Driver sends patch and abort
\* requests only for the jobs the conflict query of that item returned,
\* top-level included jobs with the item's batch-sample label; a job with
\* another batch-sample label and a job that was already excluded keeps its
\* labels and gets no abort request, whatever its status.
C29_DriverTouchesOnlyItsConflicts ==
    []RequestsOnlyForConflicts /\ [][LabelsChangeOnlyOnConflict]_vars

\* the run excluded and aborted the conflict of its item, while a second
\* running job, which has another batch-sample label or was excluded before
\* the run, got no request
C29_Witness ==
    \E wf1, wf2 \in PriorIds :
       /\ wf1 # wf2
       /\ pc[1] = "done"
       /\ \E p \in DOMAIN calls[1] : Did(1, p, "patch", wf1)
       /\ \E p \in DOMAIN calls[1] : Did(1, p, "abort", wf1)
       /\ jobs[wf2].status = CROMWELL_RUNNING_STATUS
       /\ ~jobs[wf2].child
       /\ \/ jobs[wf2].bsl # jobs[wf1].bsl
          \/ jobs[wf2].bstat = CROMWELL_BATCH_STATUS_EXCLUDE_FLAG
       /\ \A p \in DOMAIN calls[1] :
             calls[1][p].op \in {"status", "patch", "abort"} => calls[1][p].wf # wf2

\* ------------------------------------------------------------------- C30
\* the positions of the abort requests of abort_batch, accepted or not
AbortRequests == {p \in DOMAIN aborter.calls : aborter.calls[p].op = "abort"}

\* every abort request follows a status read of the same job that returned
\* none of Aborting, Aborted, Succeeded, Failed, and is for a job of the batch
AbortsOnlyJobsReadAsLive ==
    \A p \in AbortRequests :
       /\ p > 1
       /\ aborter.calls[p - 1].op = "status" /\ aborter.calls[p - 1].ok
       /\ aborter.calls[p - 1].wf = aborter.calls[p].wf
       /\ aborter.calls[p - 1].status \notin
             {CROMWELL_ABORTING_STATUS, CROMWELL_ABORTED_STATUS,
              CROMWELL_SUCCESS_STATUS, CROMWELL_FAILED_STATUS}
       /\ aborter.calls[p].wf \in Range(aborter.batch_wfs)
       /\ jobs[aborter.calls[p].wf].batch = aborter.batch_name

\* a failed abort request does not end the run, and a run that ends without
\* an error has read the status of every job of the batch
AbortFailureDoesNotStopTheLoop ==
    /\ aborter.pc = "raised" => aborter.calls[Len(aborter.calls)].op # "abort"
    /\ aborter.pc = "done"
          => \A n \in DOMAIN aborter.batch_wfs :
                \E p \in DOMAIN aborter.calls :
                   /\ aborter.calls[p].op = "status" /\ aborter.calls[p].ok
                   /\ aborter.calls[p].wf = aborter.batch_wfs[n]

\* the counts of the summary line
AbortCountsAreOrdered ==
    /\ aborter.aborted_wfs = Cardinality({p \in AbortRequests : aborter.calls[p].ok})
    /\ aborter.running_wfs = Cardinality(AbortRequests)
    /\ aborter.aborted_wfs <= aborter.running_wfs
    /\ aborter.running_wfs <= Len(aborter.batch_wfs)

\* C30: abort_batch sends an abort request only for a job of the batch whose
\* status it has just read as none of Aborting, Aborted, Succeeded, Failed;
\* an HTTP error of an abort request does not stop the loop, every job after
\* it is still examined; aborted <= attempted <= number of jobs of the batch.
C30_AbortBatchLoop ==
    /\ AbortsOnlyJobsReadAsLive
    /\ AbortFailureDoesNotStopTheLoop
    /\ AbortCountsAreOrdered

\* abort_batch went through a batch of two jobs: the abort request for the
\* first failed, the second job was examined after it
C30_Witness ==
    /\ aborter.pc = "done"
    /\ Len(aborter.batch_wfs) = 2
    /\ \E p \in AbortRequests :
          /\ ~aborter.calls[p].ok
          /\ aborter.calls[p].wf = aborter.batch_wfs[1]
          /\ \E q \in DOMAIN aborter.calls :
                /\ q > p
                /\ aborter.calls[q].op = "status" /\ aborter.calls[q].ok
                /\ aborter.calls[q].wf = aborter.batch_wfs[2]
    /\ aborter.aborted_wfs < aborter.running_wfs

====
